---- MODULE Spec2Model ----
(***************************************************************************)
(* The XBeeBoot transport of avrdude (xbee.c): one session, the client's   *)
(* operations on it (open, send, recv, drain, set_dtr_rts, close), the     *)
(* serial device it talks to, and the far end that answers.                *)
(*                                                                         *)
(* The host is single-threaded: pc is its position, and one action is one  *)
(* blocking serial call (a frame written, or a frame or a timeout read)    *)
(* together with the computation that follows it up to the next call.      *)
(***************************************************************************)
EXTENDS Integers, Sequences, FiniteSets, TLC

(***************************************************************************)
(* Program constants.                                                      *)
(***************************************************************************)
XBEE_DEFAULT_RESET_PIN == 3
XBEE_MAX_RETRIES == 16
XBEEBOOT_MAX_CHUNK == 54
XBEE_MAX_INTERMEDIATE_HOPS == 40
XBEEBOOT_PACKET_TYPE_ACK == 0
XBEEBOOT_PACKET_TYPE_REQUEST == 1
FIRMWARE_DELIVER == 23
FRAME_REPLY == 24
LOCAL_AT_RETRIES == 5
REMOTE_AT_RETRIES == 30
InBufferSize == 256
\* API frame types
API_LOCAL_AT == 8
API_TRANSMIT_REQUEST == 16
API_REMOTE_AT == 23
API_CREATE_SOURCE_ROUTE == 33
API_LOCAL_AT_RESPONSE == 136
API_TRANSMIT_STATUS == 139
API_RECEIVE_PACKET == 144
API_REMOTE_AT_RESPONSE == 151
API_ROUTE_RECORD == 161
\* the bytes of the framing, and sizeof(frame)
Cmnd_STK_GET_SYNC == 48
Sync_CRC_EOP == 32

FRAME_DELIMITER == 126
FRAME_ESCAPE == 125
XON == 17
XOFF == 19
ESCAPE_XOR == 32
FrameBufferSize == 256
\* sendAPIRequest builds the payload from &frame[5] on
FRAME_DATA_OFFSET == 5

\* The 16-bit address of a target whose address is not known yet (FF FE).
ADDR16_UNKNOWN == 65534

(***************************************************************************)
(* Bounds of the model.                                                    *)
(***************************************************************************)
\* client operations in one session after xbeedev_open
MaxOps == 2
\* events at the far end in one session, while the link is up: a new reply
\* of the target, a Route Record Indicator, or a poll of the host timing out
MaxEvents == 2
\* frames in flight from the host (written, not yet taken by the far end)
WireCap == 2
\* frames in flight to the host
InqCap == 1
\* bytes of a long reply of the target (two of them overrun the ring)
BigReply == 128
\* events at the far end when the target obeys stop-and-wait
PeerEvents == 6

\* what the client asks for
SendLens == {1, XBEEBOOT_MAX_CHUNK + 1}
RecvLens == {1, 2}
\* the data lengths of the target's REQUEST frames
ReplyLens == {0, 2, BigReply}
\* the status byte of a Remote AT response
ATStatuses == {0, 4}
\* the routes a Route Record Indicator can carry (16-bit hops)
Routes == {<< >>, <<4660>>}
\* the target's 16-bit network address
\* the 64-bit address of the target's XBee, as given in the port string
TargetAddr64 == <<0, 19, 162, 0, 18, 52, 86, 120>>

TargetAddr16 == 4660

\* the 16-bit address of the target after it has rejoined the network
MovedAddr16 == 22136

(***************************************************************************)
(* Helpers.                                                                *)
(***************************************************************************)
Min(a, b) == IF a < b THEN a ELSE b

\* the bytes first .. first+len-1 of a stream whose k-th byte is k mod 256
Stream(first, len) == [i \in 1..len |-> (first + i - 1) % 256]

Drop(s, n) == SubSeq(s, n + 1, Len(s))

IsPrefix(s, t) == Len(s) <= Len(t) /\ s = SubSeq(t, 1, Len(s))

\* variant: the increment of an unsigned char, 0 not skipped
NextSequencePlain(v) == (v + 1) % 256

\* while ((++v & 0xff) == 0);  on an unsigned char
NextSequence(v) == IF (v + 1) % 256 = 0 THEN 1 ELSE (v + 1) % 256

(***************************************************************************)
(* State.                                                                  *)
(*   xbs   struct XBeeBootSession                                          *)
(*   pc    the host's position: the serial call it makes next              *)
(*   op    the locals of the client operation in progress                  *)
(*   at    the locals of the localAT / sendAT call in progress             *)
(*   wire  frames written to the serial device, not yet taken by the far   *)
(*         end; inq: frames waiting to be read from the serial device      *)
(*   tgt   the target (bootloader) at the far end                          *)
(*   g     history: what was written, accepted and returned so far         *)
(*   dec   the frame decoder at the head of xbeedev_poll, a byte at a time: *)
(*         the bytes the serial device still holds and the poll's locals   *)
(*   pgm   the PROGRAMMER: the arguments of the run and the reset pin      *)
(*   stats the send times and summaries of the session's statistics        *)
(*   enc   the locals of a sendAPIRequest call that builds frame[]         *)
(***************************************************************************)
VARIABLES xbs, pc, op, at, wire, inq, tgt, g, dec, pgm, stats, enc

vars == <<xbs, pc, op, at, wire, inq, tgt, g, dec, pgm, stats, enc>>

\* xbee_initpgm: the PROGRAMMER before any extended parameter is parsed.
\* flag holds the reset pin, port and extparms the arguments of the run,
\* rc what the latest of xbee_parseextparms and xbeedev_open's parse returned
xbee_initpgm ==
  [flag |-> XBEE_DEFAULT_RESET_PIN, port |-> << >>, extparms |-> << >>,
   rc |-> 0, stage |-> "init", address |-> << >>, directMode |-> TRUE]

\* XBeeBootSessionInit, then xbeedev_open's parse of the port string:
\* the mode, and FF FE as the 16-bit address.  inBuffer maps the cells
\* written so far to their bytes: the session is not zeroed when it is
\* allocated, and no cell is read before it is written.
XBeeBootSessionInit(direct) ==
  [directMode |-> direct,
   addr64 |-> IF direct THEN [i \in 1..8 |-> 0] ELSE TargetAddr64,
   addr16 |-> ADDR16_UNKNOWN,
   xbeeResetPin |-> XBEE_DEFAULT_RESET_PIN,
   outSequence |-> 0,
   inSequence |-> 0,
   txSequence |-> 0,
   transportUnusable |-> FALSE,
   inInIndex |-> 0,
   inOutIndex |-> 0,
   inBuffer |-> [i \in {} |-> 0],
   sourceRouteHops |-> -1,
   sourceRouteChanged |-> FALSE,
   sourceRoute |-> << >>]

(***************************************************************************)
(* Frames written by the host: the arguments sendAPIRequest composes the   *)
(* payload from (-1: the field is absent), and the address it copies.      *)
(***************************************************************************)
OutFrame(apiType, txSequence, apiOption, addr16, prePayload1, prePayload2, packetType, sequence, appType, data) ==
  [apiType |-> apiType, txSequence |-> txSequence, apiOption |-> apiOption,
   addr16 |-> addr16, prePayload1 |-> prePayload1, prePayload2 |-> prePayload2,
   packetType |-> packetType, sequence |-> sequence, appType |-> appType,
   data |-> data]

\* variant: the frame id is left out of a 0x90 frame
FramePayloadNoId(frame, addr64) ==
  LET Opt(v) == IF v >= 0 THEN <<v>> ELSE << >>
  IN  <<frame.apiType>> \o Opt(frame.apiOption)
      \o (IF frame.apiType = API_RECEIVE_PACKET THEN << >>
          ELSE Opt(frame.txSequence))
      \o (IF frame.apiType # API_LOCAL_AT
          THEN addr64 \o <<frame.addr16 \div 256, frame.addr16 % 256>>
          ELSE << >>)
      \o Opt(frame.prePayload1) \o Opt(frame.prePayload2)
      \o Opt(frame.packetType) \o Opt(frame.sequence) \o Opt(frame.appType)
      \o frame.data

\* The unescaped payload sendAPIRequest composes for a frame, one fpput after
\* the other: the API type, the fields that are present, the ten address
\* bytes unless the frame is a local AT command, and the data (of a Create
\* Source Route, the route's addresses, two bytes each).
FramePayload(frame, addr64) ==
  LET Opt(v) == IF v >= 0 THEN <<v>> ELSE << >>
      Bytes(i) == IF frame.apiType = API_CREATE_SOURCE_ROUTE
                  THEN IF i % 2 = 1 THEN frame.data[(i + 1) \div 2] \div 256
                       ELSE frame.data[i \div 2] % 256
                  ELSE frame.data[i]
      dataLength == IF frame.apiType = API_CREATE_SOURCE_ROUTE
                    THEN 2 * Len(frame.data) ELSE Len(frame.data)
  IN  <<frame.apiType>> \o Opt(frame.apiOption) \o Opt(frame.txSequence)
      \o (IF frame.apiType # API_LOCAL_AT
          THEN addr64 \o <<frame.addr16 \div 256, frame.addr16 % 256>>
          ELSE << >>)
      \o Opt(frame.prePayload1) \o Opt(frame.prePayload2)
      \o Opt(frame.packetType) \o Opt(frame.sequence) \o Opt(frame.appType)
      \o [i \in 1..dataLength |-> Bytes(i)]

\* The Create Source Route frame sendAPIRequest issues for the cached route.
RouteFrame(x) ==
  OutFrame(API_CREATE_SOURCE_ROUTE, 0, -1, x.addr16, 0, x.sourceRouteHops,
           -1, -1, -1, x.sourceRoute)

\* variant: no Create Source Route is ever issued
RouteNeverPrefixed(x, apiType) == FALSE

\* variant: a local AT command issues the Create Source Route as well
RoutePrefixedAlways(x, apiType) ==
  /\ apiType # API_CREATE_SOURCE_ROUTE
  /\ x.sourceRouteChanged

\* Does this call of sendAPIRequest issue a Create Source Route first?
RoutePrefixed(x, apiType) ==
  /\ apiType # API_LOCAL_AT
  /\ apiType # API_CREATE_SOURCE_ROUTE
  /\ x.sourceRouteChanged

\* The ways the serial device's send can fail during one sendAPIRequest:
\* not at all, on the Create Source Route frame, or on the frame itself.
WriteFailures(x, apiType) ==
  {"none", "frame"} \cup (IF RoutePrefixed(x, apiType) THEN {"route"} ELSE {})

\* variant: a Create Source Route frame that could not be written is
\* forgotten, and the frame itself is written
sendAPIRequestOn(x, apiType, txSequence, apiOption, prePayload1, prePayload2, packetType, sequence, appType, data, fail) ==
  LET frame == OutFrame(apiType, txSequence, apiOption,
                        IF apiType = API_LOCAL_AT THEN -1 ELSE x.addr16,
                        prePayload1, prePayload2, packetType, sequence,
                        appType, data)
  IN  IF RoutePrefixed(x, apiType)
      THEN [x |-> [x EXCEPT !.sourceRouteChanged = FALSE],
            out |-> IF fail = "route" THEN <<frame>>
                    ELSE IF fail = "frame" THEN <<RouteFrame(x)>>
                    ELSE <<RouteFrame(x), frame>>,
            rc |-> IF fail = "frame" THEN -1 ELSE 0]
      ELSE [x |-> x,
            out |-> IF fail = "frame" THEN << >> ELSE <<frame>>,
            rc |-> IF fail = "frame" THEN -1 ELSE 0]

\* sendAPIRequest: the session afterwards, the frames handed to the serial
\* device in order, and the return code.
sendAPIRequest(x, apiType, txSequence, apiOption, prePayload1, prePayload2, packetType, sequence, appType, data, fail) ==
  LET frame == OutFrame(apiType, txSequence, apiOption,
                        IF apiType = API_LOCAL_AT THEN -1 ELSE x.addr16,
                        prePayload1, prePayload2, packetType, sequence,
                        appType, data)
  IN  IF RoutePrefixed(x, apiType)
      THEN IF fail = "route"
           THEN [x |-> x, out |-> << >>, rc |-> -1]
           ELSE [x |-> [x EXCEPT !.sourceRouteChanged = FALSE],
                 out |-> IF fail = "frame" THEN <<RouteFrame(x)>>
                         ELSE <<RouteFrame(x), frame>>,
                 rc |-> IF fail = "frame" THEN -1 ELSE 0]
      ELSE [x |-> x,
            out |-> IF fail = "frame" THEN << >> ELSE <<frame>>,
            rc |-> IF fail = "frame" THEN -1 ELSE 0]

\* sendPacket: a fresh frame id, then the XBeeBoot packet in a 0x90 frame
\* (direct mode) or a 0x10 frame with radius 0 and options 0.
sendPacket(x, packetType, sequence, appType, data, fail) ==
  LET x1 == [x EXCEPT !.txSequence = NextSequence(x.txSequence)]
  IN  IF x.directMode
      THEN sendAPIRequest(x1, API_RECEIVE_PACKET, x1.txSequence, -1, -1, -1,
                          packetType, sequence, appType, data, fail)
      ELSE sendAPIRequest(x1, API_TRANSMIT_REQUEST, x1.txSequence, -1, 0, 0,
                          packetType, sequence, appType, data, fail)

\* the failures possible in one sendPacket
PacketFailures(x) ==
  WriteFailures(x, IF x.directMode THEN API_RECEIVE_PACKET
                   ELSE API_TRANSMIT_REQUEST)

\* The serial line towards the far end holds WireCap frames; what is written
\* beyond that is lost, as any frame may be, and so is everything written
\* once the link is down.
WireAppend(w, frames) ==
  IF frames = << >> \/ ~tgt.up THEN w
  ELSE LET room == WireCap - Len(w)
       IN  w \o SubSeq(frames, 1, Min(room, Len(frames)))

(***************************************************************************)
(* Frames read by the host, as xbeedev_poll sees them once the checksum    *)
(* has matched: the API type, the frame id (frame[3]), the status byte of  *)
(* an AT response, whether the 64-bit source is the session's target, the  *)
(* 16-bit source, the XBeeBoot packet (dataStart[0 .. dataLength-1]) and,  *)
(* of a Route Record Indicator, the hop count byte and the 16-bit hops     *)
(* that follow it.                                                         *)
(***************************************************************************)
InFrame(frameType, txSequence, resultCode, from64, src16, pkt, hops, route) ==
  [frameType |-> frameType, txSequence |-> txSequence,
   resultCode |-> resultCode, from64 |-> from64, src16 |-> src16,
   pkt |-> pkt, hops |-> hops, route |-> route]

\* variant: no return code is taken for a status of the remote XBee
XBEE_AT_RETURN_CODE_None(x) == -1

\* XBEE_AT_RETURN_CODE
XBEE_AT_RETURN_CODE(x) == IF x >= -512 /\ x <= -256 THEN x + 512 ELSE -1

\* xbeeATError: 1 if rc encodes a status of the remote XBee
xbeeATError(rc) == XBEE_AT_RETURN_CODE(rc) >= 0

\* variant: only an unknown 16-bit address is overwritten
xbeedev_record16BitOnce(x, rx16Bit) ==
  IF x.addr16 = ADDR16_UNKNOWN THEN [x EXCEPT !.addr16 = rx16Bit] ELSE x

\* xbeedev_record16Bit
xbeedev_record16Bit(x, rx16Bit) ==
  IF rx16Bit # x.addr16 THEN [x EXCEPT !.addr16 = rx16Bit] ELSE x

\* the bytes buffered in the input ring, oldest first
RingCount(x) == (x.inInIndex - x.inOutIndex) % InBufferSize

RingContents(x) ==
  [i \in 1..RingCount(x) |-> x.inBuffer[(x.inOutIndex + i - 1) % InBufferSize]]

\* how many bytes the ring takes before inInIndex meets inOutIndex
RingRoom(x) == (x.inOutIndex - x.inInIndex - 1) % InBufferSize

\* The loop of xbeedev_poll that stores bytes in the ring: each byte is
\* stored and inInIndex advanced (wrapping at the end of inBuffer); when
\* inInIndex meets inOutIndex the transport is marked unusable and the loop
\* is left at once.
RingOverrun(x, bytes) == Len(bytes) > RingRoom(x)

RingStore(x, bytes) ==
  LET k == IF RingOverrun(x, bytes) THEN RingRoom(x) + 1 ELSE Len(bytes)
  IN  [x EXCEPT
         !.inBuffer = [i \in DOMAIN x.inBuffer \cup
                               {(x.inInIndex + j) % InBufferSize :
                                  j \in 0..(k - 1)} |->
                        LET off == (i - x.inInIndex) % InBufferSize
                        IN  IF off < k THEN bytes[off + 1]
                            ELSE x.inBuffer[i]],
         !.inInIndex = (@ + k) % InBufferSize,
         !.transportUnusable = @ \/ RingOverrun(x, bytes)]

\* variant: every sequence is taken for the next one
AcceptsAny(inSequence, sequence) == TRUE

\* sequence == nextSequence, where nextSequence follows xbs->inSequence
AcceptsSequence(inSequence, sequence) == sequence = NextSequence(inSequence)

\* variant: every ACK is taken for the awaited one
AnyAck(waitForAck, sequence) == waitForAck >= 0

\* waitForAck >= 0 && waitForAck == sequence
AckAwaited(waitForAck, sequence) == waitForAck >= 0 /\ waitForAck = sequence

\* variant: no response is the awaited one
ResponseNever(waitForSequence, txSequence) == FALSE

\* waitForSequence >= 0 && waitForSequence == frame[3]
ResponseAwaited(waitForSequence, txSequence) ==
  waitForSequence >= 0 /\ waitForSequence = txSequence

\* variant: the whole text goes to the caller's buffer
AllDirect(hasBuf, buflen, textLength) == IF hasBuf THEN textLength ELSE 0

\* how many bytes of the text go straight to the caller's buffer:
\* buflen != NULL && *buflen > 0, byte by byte
DirectCount(hasBuf, buflen, textLength) ==
  IF hasBuf THEN Min(buflen, textLength) ELSE 0

\* What one frame does to the poll loop when nothing in it concerns the
\* caller: the loop goes on.  (ackedSeq: the sequence of the ACK the poll
\* returned on; ackSeq: the sequence sendPacket was called with for an ACK.)
PollOn(x) ==
  [x |-> x, ret |-> FALSE, rc |-> 0, toBuf |-> << >>, out |-> << >>,
   ackSeq |-> -1, ackedSeq |-> -1, took |-> FALSE, overrun |-> FALSE]

PollReturn(x, rc) == [PollOn(x) EXCEPT !.ret = TRUE, !.rc = rc]

\* An accepted REQUEST(FRAME_REPLY): the data goes to the caller's buffer
\* while it has room and to the ring after that; an overrun of the ring
\* returns -1 at once; otherwise the ACK is sent, and the poll returns 0
\* if the caller's buffer is full.
PollAccept(x, sequence, text, hasBuf, buflen, fail) ==
  LET d == DirectCount(hasBuf, buflen, Len(text))
      x0 == [x EXCEPT !.inSequence = sequence]
      x1 == RingStore(x0, Drop(text, d))
      ack == sendPacket(x1, XBEEBOOT_PACKET_TYPE_ACK, sequence, -1, << >>, fail)
  IN  IF RingOverrun(x0, Drop(text, d))
      THEN [PollReturn(x1, -1) EXCEPT !.toBuf = SubSeq(text, 1, d),
                                      !.took = TRUE, !.overrun = TRUE]
      ELSE [PollOn(ack.x) EXCEPT !.ret = hasBuf /\ buflen - d = 0,
                                 !.toBuf = SubSeq(text, 1, d),
                                 !.out = ack.out,
                                 !.ackSeq = sequence,
                                 !.took = TRUE]

\* The XBeeBoot packet of a 0x10 or 0x90 frame.
PollPacket(x, pkt, hasBuf, buflen, waitForAck, fail) ==
  IF Len(pkt) < 2 THEN PollOn(x)
  ELSE IF pkt[1] = XBEEBOOT_PACKET_TYPE_ACK
       THEN IF AckAwaited(waitForAck, pkt[2])
            THEN [PollReturn(x, 0) EXCEPT !.ackedSeq = pkt[2]]
            ELSE PollOn(x)
  ELSE IF /\ pkt[1] = XBEEBOOT_PACKET_TYPE_REQUEST
          /\ Len(pkt) >= 4
          /\ pkt[3] = FRAME_REPLY
       THEN IF AcceptsSequence(x.inSequence, pkt[2])
            THEN PollAccept(x, pkt[2], Drop(pkt, 3), hasBuf, buflen, fail)
            ELSE PollOn(x)
  ELSE PollOn(x)

\* variant: a route of any length is cached
PollRouteAnyHops(x, f) ==
  LET x1 == xbeedev_record16Bit(x, f.src16)
      table == SubSeq(f.route, 1, f.hops)
  IN  IF Len(f.route) < f.hops THEN PollOn(x1)
      ELSE IF x1.sourceRouteHops # f.hops \/ table # x1.sourceRoute
           THEN PollOn([x1 EXCEPT !.sourceRoute = table,
                                  !.sourceRouteHops = f.hops,
                                  !.sourceRouteChanged = TRUE])
           ELSE PollOn(x1)

\* A Route Record Indicator from the target: the 16-bit address is
\* recorded, a frame too short for its hop count is dropped, and a route of
\* at most XBEE_MAX_INTERMEDIATE_HOPS hops that differs from the cached one
\* replaces it.
PollRoute(x, f) ==
  LET x1 == xbeedev_record16Bit(x, f.src16)
      hops == f.hops
      table == SubSeq(f.route, 1, hops)
  IN  IF Len(f.route) < hops THEN PollOn(x1)
      ELSE IF /\ hops <= XBEE_MAX_INTERMEDIATE_HOPS
              /\ (x1.sourceRouteHops # hops \/ table # x1.sourceRoute)
           THEN PollOn([x1 EXCEPT !.sourceRoute = table,
                                  !.sourceRouteHops = hops,
                                  !.sourceRouteChanged = TRUE])
           ELSE PollOn(x1)

\* xbeedev_poll on one received frame.  ret: the poll returns rc to its
\* caller; otherwise it reads on.
PollDispatch(x, f, hasBuf, buflen, waitForAck, waitForSequence, fail) ==
  IF f.frameType = API_REMOTE_AT_RESPONSE
  THEN IF ResponseAwaited(waitForSequence, f.txSequence)
       THEN PollReturn(x, -512 + f.resultCode) ELSE PollOn(x)
  ELSE IF f.frameType = API_LOCAL_AT_RESPONSE
  THEN IF ResponseAwaited(waitForSequence, f.txSequence)
       THEN PollReturn(x, 0) ELSE PollOn(x)
  ELSE IF f.frameType = API_TRANSMIT_STATUS
  THEN PollOn(x)
  ELSE IF f.frameType = API_ROUTE_RECORD
  THEN IF f.from64 THEN PollRoute(x, f) ELSE PollOn(x)
  ELSE IF f.frameType = API_TRANSMIT_REQUEST
  THEN PollPacket(x, f.pkt, hasBuf, buflen, waitForAck, fail)
  ELSE IF f.frameType = API_RECEIVE_PACKET
  THEN IF Len(f.pkt) > 0 /\ f.from64
       THEN PollPacket(xbeedev_record16Bit(x, f.src16), f.pkt, hasBuf, buflen,
                       waitForAck, fail)
       ELSE PollOn(x)
  ELSE PollOn(x)

(***************************************************************************)
(* The host: locals, and what is remembered of the run.                    *)
(***************************************************************************)
\* no client operation in progress
NoOp ==
  [name |-> "none", buf |-> << >>, sequence |-> 0, blockLength |-> 0,
   retries |-> 0, pollRc |-> 0, buflen |-> 0, is_on |-> FALSE]

\* no AT call in progress
NoAT == [local |-> FALSE, sequence |-> 0, retries |-> 0, ret |-> "none"]

\* the last inbound REQUEST(FRAME_REPLY) the latest host step read, if any
NoEvt ==
  [kind |-> "none", seq |-> 0, last |-> 0, expect |-> 0, len |-> 0,
   took |-> FALSE, ackSeq |-> -1, wrote |-> FALSE, failed |-> FALSE,
   overrun |-> FALSE, same |-> TRUE]

InitHistory ==
  [ops |-> 0,              \* client operations started
   opName |-> "open",      \* the operation in progress, or the last one
   done |-> FALSE,         \* it has returned
   rc |-> 0,               \* with this return code
   opIo |-> FALSE,         \* it has read from or written to the serial device
   polled |-> FALSE,       \* a poll of it has read a frame or timed out
   startUnusable |-> FALSE,\* transportUnusable was set when it was called
   startAfterErr |-> FALSE,\* a send or recv had returned an error before it
   sendErr |-> FALSE,      \* some xbeedev_send has returned an error
   recvErr |-> FALSE,      \* some xbeedev_recv has returned an error
   ioAfterLatch |-> FALSE, \* serial I/O took place with transportUnusable set
   overrun |-> FALSE,      \* the input ring has overrun
   clientSent |-> 0,       \* bytes the client has handed to xbeedev_send
   sendBuf |-> << >>,      \* the buffer of the latest xbeedev_send
   chunks |-> << >>,       \* the chunks cut from it so far: outSequence,
                           \*   sourceRouteHops then, offset in buf and bytes
   outstanding |-> {},     \* outSequences written and not seen acknowledged
   chunkSeq |-> 0,         \* of the current chunk: its outSequence,
   chunkHops |-> -1,       \*   sourceRouteHops when it was cut,
   copies |-> 0,           \*   the REQUESTs written for it,
   fails |-> 0,            \*   the polls that ended without its ACK,
   first |-> << >>,        \*   what the first REQUEST carried,
   copiesSame |-> TRUE,    \*   and whether every later one carried the same
   accepted |-> << >>,     \* the data of the accepted inbound REQUESTs
   delivered |-> << >>,    \* the bytes written to the client's recv buffers
   asked |-> 0,            \* of the last xbeedev_recv: buflen,
   got |-> 0,              \*   and the bytes written to buf
   evt |-> NoEvt,
   dup |-> "none",         \* a stale REQUEST was read: seen / due (a poll of
                           \* send or recv timed out since) / none
   atLast |-> [cmd |-> << >>, done |-> TRUE, rc |-> 0],
                           \* the latest localAT or sendAT call that reached
                           \*   its write, if no operation was called since
                           \*   it returned: its command, whether it has
                           \*   returned, and its return code
   serialDtr |-> "none",   \* what the serial device's own set_dtr_rts was
                           \*   last called with since an operation was
                           \*   called: "on", "off", or "none"
   sendRc |-> 0,           \* what sendAPIRequest returned to localAT or
                           \*   sendAT in the latest host step, 0 if none
   lastOut |-> << >>,      \* the frames the latest host step wrote
   payloads |-> << >>,     \*   and the unescaped payload of each
   lastId |-> 0,           \* the frame id of the last frame written that
                           \*   carries one from txSequence, 0 if none yet
   lastRoute |-> << >>,    \* the last frame written, if a Create Source Route
   routeDue |-> << >>]     \* the route cached since the last 0x10 or 0x17
                           \* frame was written, if the cache has changed

\* a 0x10 or 0x17 frame
Addressed(frame) == frame.apiType \in {API_TRANSMIT_REQUEST, API_REMOTE_AT}

\* a frame whose frame id is drawn from txSequence
Numbered(frame) ==
  frame.apiType \in {API_LOCAL_AT, API_TRANSMIT_REQUEST, API_REMOTE_AT,
                     API_RECEIVE_PACKET}

\* the part of the history every host step updates: io tells whether the
\* step calls the serial device's recv or send, out is what it wrote
Step(h, io, out) ==
  [h EXCEPT !.evt = NoEvt,
            !.sendRc = 0,
            !.lastOut = out,
            !.payloads = [i \in 1..Len(out) |->
                            FramePayload(out[i], xbs.addr64)],
            !.lastId = IF SelectSeq(out, Numbered) = << >> THEN @
                       ELSE SelectSeq(out, Numbered)[Len(SelectSeq(out, Numbered))].txSequence,
            !.lastRoute = IF out = << >> THEN @
                          ELSE IF out[Len(out)].apiType = API_CREATE_SOURCE_ROUTE
                               THEN <<out[Len(out)]>> ELSE << >>,
            !.routeDue = IF \E i \in 1..Len(out) : Addressed(out[i])
                         THEN << >> ELSE @,
            !.opIo = @ \/ io,
            !.ioAfterLatch = @ \/ (io /\ xbs.transportUnusable)]

\* a client operation is called
Called(name) ==
  [Step(g, FALSE, << >>) EXCEPT
     !.ops = @ + 1, !.opName = name, !.done = FALSE, !.rc = 0,
     !.opIo = FALSE, !.polled = FALSE, !.atLast = InitHistory.atLast,
     !.serialDtr = "none",
     !.startUnusable = xbs.transportUnusable,
     !.startAfterErr = g.sendErr \/ g.recvErr]

Result(x, p, o, a, h) == [x |-> x, pc |-> p, op |-> o, at |-> a, g |-> h]

\* a client operation returns rc
Finish(x, h, rc) ==
  Result(x, "idle", NoOp, NoAT,
         [h EXCEPT !.done = TRUE, !.rc = rc,
                   !.copies = IF rc < 0 THEN @ ELSE 0,
                   !.fails = IF rc < 0 THEN @ ELSE 0,
                   !.first = IF rc < 0 THEN @ ELSE << >>,
                   !.sendErr = @ \/ (h.opName = "send" /\ rc < 0),
                   !.recvErr = @ \/ (h.opName = "recv" /\ rc < 0)])

\* variant: the session is kept and the serial device stays open
FreedNever(x, h, rc) == Finish(x, h, rc)

\* the session is freed: by xbee_close, or by a failed xbeedev_open
Freed(x, h, rc) ==
  Result(x, "closed", NoOp, NoAT, [h EXCEPT !.done = TRUE, !.rc = rc])

Apply(r) ==
  /\ dec' = dec
  /\ pgm' = pgm
  /\ stats' = stats
  /\ enc' = enc
  /\ xbs' = r.x
  /\ pc' = r.pc
  /\ op' = r.op
  /\ at' = r.at
  /\ g' = r.g

\* A faulty serial device's send can fail in the ways ways, until the
\* operation in progress has started to retry; it does not fail after that.
MayFail(ways) ==
  IF tgt.faulty /\ op.retries = 0 /\ at.retries = 0 THEN ways ELSE {"none"}

(***************************************************************************)
(* xbeedev_send                                                            *)
(***************************************************************************)
\* variant: the flag is never looked at
NeverUnusable(x) == FALSE

\* if (xbs->transportUnusable): don't attempt to continue on an unusable
\* transport layer
TransportUnusable(x) == x.transportUnusable

\* variant: a route of no hops costs its two bytes as well
MaximumChunkEager(hops) ==
  IF hops >= 0 /\ (hops * 2 + 2) < XBEEBOOT_MAX_CHUNK
  THEN XBEEBOOT_MAX_CHUNK - (hops * 2 + 2)
  ELSE XBEEBOOT_MAX_CHUNK

\* variant: the route is not anticipated
MaximumChunkFlat(hops) == XBEEBOOT_MAX_CHUNK

\* the chunk budget for a cached route of hops hops
MaximumChunk(hops) ==
  IF hops > 0 /\ (hops * 2 + 2) < XBEEBOOT_MAX_CHUNK
  THEN XBEEBOOT_MAX_CHUNK - (hops * 2 + 2)
  ELSE XBEEBOOT_MAX_CHUNK

\* the head of the while loop: the next outSequence and the block length
BeginChunk(x, buf, h) ==
  LET sequence == NextSequence(x.outSequence)
      maximum_chunk == MaximumChunk(x.sourceRouteHops)
      blockLength == IF Len(buf) > maximum_chunk THEN maximum_chunk
                     ELSE Len(buf)
  IN  Result([x EXCEPT !.outSequence = sequence], "send_write",
             [NoOp EXCEPT !.name = "send", !.buf = buf,
                          !.sequence = sequence,
                          !.blockLength = blockLength],
             NoAT,
             [h EXCEPT !.chunkSeq = sequence, !.copies = 0, !.fails = 0,
                       !.chunkHops = x.sourceRouteHops,
                       !.chunks = Append(@, [seq |-> sequence,
                                             hops |-> x.sourceRouteHops,
                                             off |-> Len(h.sendBuf) - Len(buf),
                                             data |-> SubSeq(buf, 1, blockLength)]),
                       !.first = << >>, !.copiesSame = TRUE])

\* variant: the failure is returned and the transport left usable
SendFailedUnlatched(x, h, rc) == Finish(x, h, rc)

\* there is no way to recover from a failure mid-send
SendFailed(x, h, rc) ==
  Finish([x EXCEPT !.transportUnusable = TRUE], h, rc)

\* variant: no retry
SendRetryNever(retries) == FALSE

\* variant: one retry more
SendRetryMore(retries) == retries <= XBEE_MAX_RETRIES

\* retries < XBEE_MAX_RETRIES, after retries++
SendRetryAgain(retries) == retries < XBEE_MAX_RETRIES

\* the foot of the for loop: another round, or the budget is spent
SendRetry(x, h, pollRc) ==
  IF SendRetryAgain(op.retries + 1)
  THEN Result(x, "send_write", [op EXCEPT !.retries = @ + 1, !.pollRc = pollRc],
              NoAT, h)
  ELSE IF pollRc < 0 THEN SendFailed(x, h, pollRc)
  ELSE BeginChunk(x, op.buf, h)

\* variant: the chunk counts as delivered whatever the poll returned
SendAdvance(x, h, pollRc) ==
  LET rest == Drop(op.buf, op.blockLength)
  IN  IF Len(rest) > 0 THEN BeginChunk(x, rest, h) ELSE Finish(x, h, 0)

\* after xbeedev_poll has returned pollRc to xbeedev_send
SendAfterPoll(x, h, pollRc) ==
  IF pollRc = 0
  THEN LET rest == Drop(op.buf, op.blockLength)
       IN  IF Len(rest) > 0 THEN BeginChunk(x, rest, h) ELSE Finish(x, h, 0)
  ELSE LET h1 == [h EXCEPT !.fails = @ + 1]
       IN  IF x.inSequence # 0
           THEN Result(x, "send_ack", [op EXCEPT !.pollRc = pollRc], NoAT, h1)
           ELSE SendRetry(x, h1, pollRc)

\* xbeedev_send(buf) up to the head of its loop
xbeedev_send(buf) ==
  /\ LET h == [Called("send") EXCEPT !.clientSent = @ + Len(buf),
                                     !.sendBuf = buf, !.chunks = << >>]
     IN  IF TransportUnusable(xbs)
         THEN Apply(Finish(xbs, h, -1))
         ELSE Apply(BeginChunk(xbs, buf, h))
  /\ UNCHANGED <<wire, inq, tgt>>

\* xbeedev_send is called with len bytes
ClientSend(len) ==
  /\ pc = "idle"
  /\ g.ops < MaxOps
  /\ xbeedev_send(Stream(g.clientSent + 1, len))

\* sendPacket of the chunk as REQUEST(FIRMWARE_DELIVER)
SendWrite ==
  /\ pc = "send_write"
  /\ \E fail \in MayFail(PacketFailures(xbs)) :
       LET data == SubSeq(op.buf, 1, op.blockLength)
           w == sendPacket(xbs, XBEEBOOT_PACKET_TYPE_REQUEST, op.sequence,
                           FIRMWARE_DELIVER, data, fail)
           this == <<op.sequence, FIRMWARE_DELIVER, data>>
           h == [Step(g, TRUE, w.out) EXCEPT
                   !.copies = @ + 1,
                   !.first = IF g.copies = 0 THEN this ELSE @,
                   !.copiesSame = @ /\ (g.copies = 0 \/ g.first = this),
                   !.outstanding = IF w.rc < 0 THEN @ ELSE @ \cup {op.sequence}]
       IN  /\ wire' = WireAppend(wire, w.out)
           /\ IF w.rc < 0
              THEN Apply(SendFailed(w.x, h, w.rc))
              ELSE Apply(Result(w.x, "send_poll", op, NoAT, h))
  /\ UNCHANGED <<inq, tgt>>

\* the ACK resent after a poll that did not see the chunk acknowledged
SendAck ==
  /\ pc = "send_ack"
  /\ \E fail \in MayFail(PacketFailures(xbs)) :
       LET w == sendPacket(xbs, XBEEBOOT_PACKET_TYPE_ACK, xbs.inSequence, -1,
                           << >>, fail)
           h == [Step(g, TRUE, w.out) EXCEPT !.dup = "none"]
       IN  /\ wire' = WireAppend(wire, w.out)
           /\ IF w.rc < 0
              THEN Apply(SendFailed(w.x, h, w.rc))
              ELSE Apply(SendRetry(w.x, h, op.pollRc))
  /\ UNCHANGED <<inq, tgt>>

(***************************************************************************)
(* xbeedev_recv                                                            *)
(***************************************************************************)
\* the foot of the for loop of xbeedev_recv
RecvRetry(x, h, buflen) ==
  IF op.retries + 1 < XBEE_MAX_RETRIES
  THEN Result(x, "recv_poll", [op EXCEPT !.retries = @ + 1, !.buflen = buflen],
              NoAT, h)
  ELSE Finish(x, h, -1)

\* variant: no ACK is sent again before the next poll
RecvNoAck(x, h, rc, buflen) ==
  IF rc = 0 THEN Finish(x, h, 0)
  ELSE IF TransportUnusable(x) THEN Finish(x, h, -1)
  ELSE RecvRetry(x, h, buflen)

\* variant: the ACK is sent again whatever inSequence holds
RecvAckAlways(x, h, rc, buflen) ==
  IF rc = 0 THEN Finish(x, h, 0)
  ELSE IF TransportUnusable(x) THEN Finish(x, h, -1)
  ELSE Result(x, "recv_ack", [op EXCEPT !.buflen = buflen], NoAT, h)

\* after xbeedev_poll has returned rc to xbeedev_recv, with buflen left
RecvAfterPoll(x, h, rc, buflen) ==
  IF rc = 0 THEN Finish(x, h, 0)
  ELSE IF TransportUnusable(x) THEN Finish(x, h, -1)
  ELSE IF x.inSequence # 0
       THEN Result(x, "recv_ack", [op EXCEPT !.buflen = buflen], NoAT, h)
       ELSE RecvRetry(x, h, buflen)

\* the bytes xbeedev_recv takes from the ring before it polls
Debuffered(x, buflen) == SubSeq(RingContents(x), 1, Min(RingCount(x), buflen))

\* xbeedev_recv for len bytes (len > 0) up to its first poll
xbeedev_recv(len) ==
  /\ LET bytes == Debuffered(xbs, len)
         x == [xbs EXCEPT !.inOutIndex = (@ + Len(bytes)) % InBufferSize]
         h == [Called("recv") EXCEPT !.asked = len, !.got = Len(bytes),
                                     !.delivered = @ \o bytes]
     IN  IF Len(bytes) = len THEN Apply(Finish(x, h, 0))
         ELSE IF TransportUnusable(x) THEN Apply(Finish(x, h, -1))
         ELSE Apply(Result(x, "recv_poll",
                           [NoOp EXCEPT !.name = "recv",
                                        !.buflen = len - Len(bytes)],
                           NoAT, h))
  /\ UNCHANGED <<wire, inq, tgt>>

\* xbeedev_recv is called for len bytes
ClientRecv(len) ==
  /\ pc = "idle"
  /\ g.ops < MaxOps
  /\ xbeedev_recv(len)

\* the ACK resent after a poll that did not fill the buffer
RecvAck ==
  /\ pc = "recv_ack"
  /\ \E fail \in MayFail(PacketFailures(xbs)) :
       LET w == sendPacket(xbs, XBEEBOOT_PACKET_TYPE_ACK, xbs.inSequence, -1,
                           << >>, fail)
       IN  /\ wire' = WireAppend(wire, w.out)
           /\ Apply(RecvRetry(w.x, [Step(g, TRUE, w.out) EXCEPT !.dup = "none"],
                               op.buflen))
  /\ UNCHANGED <<inq, tgt>>

(***************************************************************************)
(* xbeedev_drain                                                           *)
(***************************************************************************)
\* xbs->inOutIndex = xbs->inInIndex = 0
DrainReset(x) == [x EXCEPT !.inOutIndex = 0, !.inInIndex = 0]

\* after xbeedev_poll has returned rc to xbeedev_drain
DrainAfterPoll(x, h, rc) ==
  IF rc = 0
  THEN Result(DrainReset(x), "drain_poll", op, NoAT,
              [h EXCEPT !.accepted = h.delivered])
  ELSE Finish(x, h, 0)

\* xbeedev_drain is called.  What the ring held is dropped from the account
\* of what was accepted: it will never be delivered.
ClientDrain ==
  /\ pc = "idle"
  /\ g.ops < MaxOps
  /\ LET h == Called("drain")
     IN  IF TransportUnusable(xbs) THEN Apply(Finish(xbs, h, -1))
         ELSE Apply(Result(DrainReset(xbs), "drain_poll",
                           [NoOp EXCEPT !.name = "drain"], NoAT,
                           [h EXCEPT !.accepted = h.delivered]))
  /\ UNCHANGED <<wire, inq, tgt>>

(***************************************************************************)
(* localAT and sendAT                                                      *)
(***************************************************************************)
\* buf[] of localAT and sendAT: the two command bytes and the parameter
ATCommand(at1, at2, value) ==
  IF value >= 0 THEN <<at1, at2, value>> ELSE <<at1, at2>>

\* variant: AT commands are issued in direct mode as well
ATSkippedNever(x) == FALSE

\* if (xbs->directMode) return 0 at the head of localAT and sendAT, which
\* xbeedev_open, xbeedev_set_dtr_rts and xbee_close test before they call
ATSkipped(x) == x.directMode

\* localAT up to its first poll (not in direct mode)
localAT(x, at1, at2, value, fail) ==
  LET x1 == [x EXCEPT !.txSequence = NextSequence(x.txSequence)]
  IN  sendAPIRequest(x1, API_LOCAL_AT, x1.txSequence, -1, -1, -1, -1, -1, -1,
                     ATCommand(at1, at2, value), fail)

\* variant: a broadcast radius of 0 goes before the options
sendATRadius(x, at1, at2, value, fail) ==
  LET x1 == [x EXCEPT !.txSequence = NextSequence(x.txSequence)]
  IN  sendAPIRequest(x1, API_REMOTE_AT, x1.txSequence, -1, 0, -1, -1, 2, -1,
                     ATCommand(at1, at2, value), fail)

\* sendAT up to its first poll (not in direct mode)
sendAT(x, at1, at2, value, fail) ==
  LET x1 == [x EXCEPT !.txSequence = NextSequence(x.txSequence)]
  IN  sendAPIRequest(x1, API_REMOTE_AT, x1.txSequence, -1, -1, -1, -1, 2, -1,
                     ATCommand(at1, at2, value), fail)

\* the host starts polling for the response to the AT frame w wrote
ATPolling(w, o, local, ret, cmd, h) ==
  Result(w.x, "at_poll", o,
         [local |-> local, sequence |-> w.x.txSequence, retries |-> 0,
          ret |-> ret],
         [Step(h, TRUE, w.out) EXCEPT
            !.sendRc = w.rc,
            !.atLast = [cmd |-> cmd, done |-> FALSE, rc |-> 0]])

\* variant: no return code counts as a failure
ATFailedNever(rc) == FALSE

\* if (rc < 0) after localAT or sendAT has returned rc
ATFailed(rc) == rc < 0

\* localAT or sendAT returns rc to the operation that called it
ATReturn(x, h0, rc) ==
  LET h == [h0 EXCEPT !.atLast.done = TRUE, !.atLast.rc = rc]
  IN  CASE at.ret = "open_AP" ->
             IF ATFailed(rc) THEN Freed(x, h, rc)
             ELSE Result(x, "open_AR", op, NoAT, h)
        [] at.ret = "open_AR" ->
             IF ATFailed(rc) THEN Freed(x, h, rc)
             ELSE Result(x, "open_D6", op, NoAT, h)
        [] at.ret = "open_D6" ->
             IF ATFailed(rc) THEN Freed(x, h, IF xbeeATError(rc) THEN -1 ELSE rc)
             ELSE Finish(x, h, 0)
        [] at.ret = "dtr" ->
             IF ATFailed(rc) THEN Finish(x, h, IF xbeeATError(rc) THEN -1 ELSE rc)
             ELSE Finish(x, h, 0)
        [] at.ret = "close" -> Freed(x, h, 0)

\* after xbeedev_poll has returned rc to localAT or sendAT
ATAfterPoll(x, h, rc) ==
  IF at.local
  THEN IF rc = 0 THEN ATReturn(x, h, rc)
       ELSE IF at.retries + 1 < LOCAL_AT_RETRIES
            THEN Result(x, "at_poll", op, [at EXCEPT !.retries = @ + 1], h)
            ELSE ATReturn(x, h, -1)
  ELSE IF XBEE_AT_RETURN_CODE(rc) = 0 THEN ATReturn(x, h, 0)
       ELSE IF rc # -1 THEN ATReturn(x, h, rc)
       ELSE IF at.retries + 1 < REMOTE_AT_RETRIES
            THEN Result(x, "at_poll", op, [at EXCEPT !.retries = @ + 1], h)
            ELSE ATReturn(x, h, -1)

(***************************************************************************)
(* xbeedev_open, xbeedev_set_dtr_rts, xbee_close                           *)
(***************************************************************************)
\* xbeedev_open after the serial device is open: nothing more in direct
\* mode, AT AP=2 otherwise
Open ==
  /\ pc = "open"
  /\ IF ATSkipped(xbs)
     THEN /\ Apply(Finish(xbs, Step(g, FALSE, << >>), 0))
          /\ UNCHANGED wire
     ELSE \E fail \in MayFail(WriteFailures(xbs, API_LOCAL_AT)) :
            LET w == localAT(xbs, 65, 80, 2, fail)
            IN  /\ Apply(ATPolling(w, op, TRUE, "open_AP",
                                    ATCommand(65, 80, 2), g))
                /\ wire' = WireAppend(wire, w.out)
  /\ UNCHANGED <<inq, tgt>>

\* AT AR=0
OpenAR ==
  /\ pc = "open_AR"
  /\ \E fail \in MayFail(WriteFailures(xbs, API_LOCAL_AT)) :
       LET w == localAT(xbs, 65, 82, 0, fail)
       IN  /\ Apply(ATPolling(w, op, TRUE, "open_AR", ATCommand(65, 82, 0), g))
           /\ wire' = WireAppend(wire, w.out)
  /\ UNCHANGED <<inq, tgt>>

\* AT D6=0 to the remote XBee
OpenD6 ==
  /\ pc = "open_D6"
  /\ \E fail \in MayFail(WriteFailures(xbs, API_REMOTE_AT)) :
       LET w == sendAT(xbs, 68, 54, 0, fail)
       IN  /\ Apply(ATPolling(w, op, FALSE, "open_D6", ATCommand(68, 54, 0),
                               g))
           /\ wire' = WireAppend(wire, w.out)
  /\ UNCHANGED <<inq, tgt>>

\* variant: 4 for is_on, 5 otherwise
ResetValueInverted(is_on) == IF is_on THEN 4 ELSE 5

\* is_on ? 5 : 4, the parameter of AT D<pin> in xbeedev_set_dtr_rts
ResetValue(is_on) == IF is_on THEN 5 ELSE 4

\* xbeedev_set_dtr_rts(is_on) on the session x: the serial device's own
\* set_dtr_rts in direct mode (it returns 0 or an error), AT D<pin> = 5 or 4
\* to the remote XBee otherwise
xbeedev_set_dtr_rts(x, is_on) ==
  /\ IF ATSkipped(x)
     THEN /\ \E rc \in {0, -1} :
               Apply(Finish(x, [Called("set_dtr_rts") EXCEPT
                                  !.serialDtr = IF is_on THEN "on" ELSE "off"],
                            rc))
          /\ UNCHANGED wire
     ELSE \E fail \in MayFail(WriteFailures(x, API_REMOTE_AT)) :
            LET w == sendAT(x, 68, 48 + x.xbeeResetPin, ResetValue(is_on),
                            fail)
            IN  /\ Apply(ATPolling(w, [NoOp EXCEPT !.name = "set_dtr_rts",
                                                   !.is_on = is_on],
                                    FALSE, "dtr",
                                    ATCommand(68, 48 + x.xbeeResetPin,
                                              ResetValue(is_on)),
                                    Called("set_dtr_rts")))
                /\ wire' = WireAppend(wire, w.out)
  /\ UNCHANGED <<inq, tgt>>

\* the client calls xbeedev_set_dtr_rts
ClientSetDtrRts(is_on) ==
  /\ pc = "idle"
  /\ g.ops < MaxOps
  /\ xbeedev_set_dtr_rts(xbs, is_on)

\* xbee_close: the serial device's set_dtr_rts(0), AT FR to the remote XBee
\* unless in direct mode, the statistics, and the session is freed
ClientClose ==
  /\ pc = "idle"
  /\ g.ops < MaxOps
  /\ LET h == [Called("close") EXCEPT !.serialDtr = "off"]
     IN  IF ATSkipped(xbs)
         THEN /\ Apply(Freed(xbs, h, 0))
              /\ UNCHANGED wire
         ELSE \E fail \in MayFail(WriteFailures(xbs, API_REMOTE_AT)) :
                LET w == sendAT(xbs, 70, 82, -1, fail)
                IN  /\ Apply(ATPolling(w, op, FALSE, "close",
                                        ATCommand(70, 82, -1), h))
                    /\ wire' = WireAppend(wire, w.out)
  /\ UNCHANGED <<inq, tgt>>

(***************************************************************************)
(* xbeedev_poll, as called by the operation in progress                    *)
(***************************************************************************)
Polling == pc \in {"send_poll", "recv_poll", "drain_poll", "at_poll"}

\* what the caller does with the return code of its poll
AfterPoll(x, h, rc, buflen) ==
  CASE pc = "send_poll" -> SendAfterPoll(x, h, rc)
    [] pc = "recv_poll" -> RecvAfterPoll(x, h, rc, buflen)
    [] pc = "drain_poll" -> DrainAfterPoll(x, h, rc)
    [] pc = "at_poll" -> ATAfterPoll(x, h, rc)

\* a REQUEST(FRAME_REPLY) that reaches the sequence check of xbeedev_poll or
\* is dropped just before it for want of a data byte
IsReply(f) ==
  /\ \/ f.frameType = API_TRANSMIT_REQUEST
     \/ f.frameType = API_RECEIVE_PACKET /\ f.from64
  /\ Len(f.pkt) >= 3
  /\ f.pkt[1] = XBEEBOOT_PACKET_TYPE_REQUEST
  /\ f.pkt[3] = FRAME_REPLY

\* the frames out hold an ACK of sequence
WritesAck(out, sequence) ==
  \E i \in 1..Len(out) : /\ out[i].packetType = XBEEBOOT_PACKET_TYPE_ACK
                         /\ out[i].sequence = sequence

\* the poll reads one frame from the serial device
PollFrame ==
  /\ Polling
  /\ inq # << >>
  /\ LET f == Head(inq)
         hasBuf == pc = "recv_poll"
         waitForAck == IF pc = "send_poll" THEN op.sequence ELSE -1
         waitForSequence == IF pc = "at_poll" THEN at.sequence ELSE -1
     IN  \E fail \in MayFail(PacketFailures(xbs)) :
         \E r \in {PollDispatch(xbs, f, hasBuf, op.buflen, waitForAck,
                                waitForSequence, fail)} :
           LET buflen == op.buflen - Len(r.toBuf)
               h0 == [Step(g, TRUE, r.out) EXCEPT !.polled = TRUE]
               h == [h0 EXCEPT
                 !.evt = IF IsReply(f)
                         THEN [kind |-> "req", seq |-> f.pkt[2],
                               last |-> xbs.inSequence,
                               expect |-> NextSequence(xbs.inSequence),
                               len |-> Len(f.pkt) - 3,
                               took |-> r.took, ackSeq |-> r.ackSeq,
                               wrote |-> WritesAck(r.out, f.pkt[2]),
                               failed |-> fail # "none",
                               overrun |-> r.overrun,
                               same |-> /\ r.x.inSequence = xbs.inSequence
                                        /\ r.x.inInIndex = xbs.inInIndex
                                        /\ r.x.inBuffer = xbs.inBuffer
                                        /\ r.toBuf = << >>]
                         ELSE NoEvt,
                 !.accepted = IF r.took THEN @ \o Drop(f.pkt, 3) ELSE @,
                 !.delivered = @ \o r.toBuf,
                 !.got = @ + Len(r.toBuf),
                 !.overrun = @ \/ r.overrun,
                 !.routeDue =
                   IF \/ r.x.sourceRouteHops # xbs.sourceRouteHops
                      \/ r.x.sourceRoute # xbs.sourceRoute
                   THEN <<[hops |-> r.x.sourceRouteHops,
                           route |-> r.x.sourceRoute]>>
                   ELSE @,
                 !.outstanding = IF pc = "send_poll" /\ r.ret /\ r.ackedSeq >= 0
                                 THEN @ \ {r.ackedSeq} ELSE @,
                 !.dup = IF r.ackSeq >= 0 THEN "none"
                         ELSE IF /\ IsReply(f)
                                 /\ f.pkt[2] # NextSequence(xbs.inSequence)
                                 /\ xbs.inSequence # 0
                              THEN "seen" ELSE @]
           IN  /\ fail = "none" \/ r.ackSeq >= 0
               /\ wire' = WireAppend(wire, r.out)
               /\ IF r.ret THEN Apply(AfterPoll(r.x, h, r.rc, buflen))
                  ELSE Apply(Result(r.x, pc, [op EXCEPT !.buflen = buflen],
                                    at, h))
  /\ inq' = Tail(inq)
  /\ UNCHANGED tgt

\* the serial device's recv times out: the poll returns -1
TimedOut ==
  /\ Polling
  /\ LET h == [Step(g, TRUE, << >>) EXCEPT
                 !.polled = TRUE,
                 !.dup = IF @ = "seen" /\ pc \in {"send_poll", "recv_poll"}
                         THEN "due" ELSE @]
     IN  Apply(AfterPoll(xbs, h, -1, op.buflen))

\* a poll times out.  A frame still in flight arrives after the timeout.
\* While the link is up a timeout is an event; once it is down every poll
\* times out.
PollTimeout ==
  /\ TimedOut
  /\ IF tgt.up
     THEN /\ tgt.events < MaxEvents
          /\ tgt' = [tgt EXCEPT !.events = @ + 1]
     ELSE UNCHANGED tgt
  /\ UNCHANGED <<wire, inq>>

(***************************************************************************)
(* The far end: the local XBee answers AT frames, the mesh reports routes, *)
(* and the target's bootloader accepts a REQUEST whose sequence follows    *)
(* the last one it accepted, acknowledges every REQUEST it receives, and   *)
(* sends replies of its own.  Any frame may be lost in either direction.   *)
(* The far end is looked at while the host waits in a poll: what happens   *)
(* between two polls is seen by the host at the next one.                  *)
(***************************************************************************)
InitTarget ==
  [inLast |-> 0,          \* the last sequence accepted from the host
   accepted |-> << >>,    \* the bytes accepted from the host
   outSeq |-> 0,          \* the sequence of the last reply sent
   acked |-> 0,           \* the last reply the host's ACK was taken for
   outData |-> << >>,     \* and its data
   sent |-> 0,            \* bytes of reply data originated so far
   up |-> TRUE,           \* the link to the far end is up
   faulty |-> TRUE,       \* the serial device's send can fail
   events |-> 0]          \* events so far

\* the session is open: xbeedev_open has returned.  The target and the mesh
\* are silent until then.
Opened == g.opName # "open"

InqAppend(q, f) == IF Len(q) < InqCap THEN Append(q, f) ELSE q

\* a frame carrying an XBeeBoot packet from the target: a 0x90 from the
\* local XBee, or the 0x10 the bootloader writes when wired directly
DataFrame(pkt) ==
  InFrame(IF xbs.directMode THEN API_TRANSMIT_REQUEST ELSE API_RECEIVE_PACKET,
          0, 0, TRUE, TargetAddr16, pkt, 0, << >>)

ReplyFrame(seq, data) ==
  DataFrame(<<XBEEBOOT_PACKET_TYPE_REQUEST, seq, FRAME_REPLY>> \o data)

\* the target takes an XBeeBoot packet of the host
TargetReceive(f) ==
  IF f.packetType = XBEEBOOT_PACKET_TYPE_REQUEST
  THEN /\ tgt' = IF f.sequence = NextSequence(tgt.inLast)
                 THEN [tgt EXCEPT !.inLast = f.sequence,
                                  !.accepted = @ \o f.data]
                 ELSE tgt
       /\ inq' = InqAppend(inq, DataFrame(<<XBEEBOOT_PACKET_TYPE_ACK,
                                            f.sequence>>))
  ELSE IF f.packetType = XBEEBOOT_PACKET_TYPE_ACK
  THEN /\ tgt' = IF f.sequence = tgt.outSeq
                 THEN [tgt EXCEPT !.acked = f.sequence] ELSE tgt
       /\ UNCHANGED inq
  ELSE UNCHANGED <<tgt, inq>>

\* the far end takes the oldest frame the host wrote
Deliver ==
  /\ Polling
  /\ wire # << >>
  /\ wire' = Tail(wire)
  /\ LET f == Head(wire)
     IN  CASE f.apiType = API_LOCAL_AT ->
                /\ inq' = InqAppend(inq, InFrame(API_LOCAL_AT_RESPONSE,
                                                 f.txSequence, 0, FALSE, 0,
                                                 << >>, 0, << >>))
                /\ UNCHANGED tgt
           [] f.apiType = API_REMOTE_AT ->
                /\ \E status \in ATStatuses :
                     inq' = InqAppend(inq, InFrame(API_REMOTE_AT_RESPONSE,
                                                   f.txSequence, status, TRUE,
                                                   TargetAddr16, << >>, 0,
                                                   << >>))
                /\ UNCHANGED tgt
           [] f.apiType = API_CREATE_SOURCE_ROUTE -> UNCHANGED <<tgt, inq>>
           [] OTHER -> TargetReceive(f)
  /\ UNCHANGED <<enc, pgm, stats, dec, xbs, pc, op, at, g>>

\* the oldest frame the host wrote does not reach the far end
LostOut ==
  /\ Polling
  /\ wire # << >>
  /\ wire' = Tail(wire)
  /\ UNCHANGED <<enc, pgm, stats, dec, xbs, pc, op, at, inq, g>>

\* the oldest frame for the host does not reach it
LostIn ==
  /\ Polling
  /\ inq # << >>
  /\ inq' = Tail(inq)
  /\ UNCHANGED <<enc, pgm, stats, dec, xbs, pc, op, at, wire, g>>

\* a frame the host wrote is lost
LoseOut == LostOut /\ UNCHANGED tgt

\* a frame for the host is lost
LoseIn == LostIn /\ UNCHANGED tgt

\* a frame the host wrote is lost, as an event
DropOut ==
  /\ tgt.events < MaxEvents
  /\ LostOut
  /\ tgt' = [tgt EXCEPT !.events = @ + 1]

\* a frame for the host is lost, as an event
DropIn ==
  /\ tgt.events < MaxEvents
  /\ LostIn
  /\ tgt' = [tgt EXCEPT !.events = @ + 1]

\* the far end takes a frame when there is room for its answer
Arrive == Len(inq) < InqCap /\ Deliver

\* a poll times out with nothing in flight
QuietTimeout ==
  /\ wire = << >>
  /\ inq = << >>
  /\ TimedOut
  /\ UNCHANGED <<wire, inq, tgt>>

\* the link goes down for good, during the first poll of an operation or of
\* an AT call of xbeedev_open: what is in flight is lost, nothing written from now on
\* arrives, and nothing more is received
LinkDown ==
  /\ Polling
  /\ tgt.up
  /\ ~g.polled \/ (g.opName = "open" /\ pc = "at_poll" /\ at.retries = 0)
  /\ wire' = << >>
  /\ inq' = << >>
  /\ tgt' = [tgt EXCEPT !.up = FALSE]
  /\ UNCHANGED <<enc, pgm, stats, dec, xbs, pc, op, at, g>>

\* the target sends a new reply of len data bytes
TargetSend(len) ==
  /\ Polling
  /\ Opened
  /\ tgt.up
  /\ tgt.events < MaxEvents
  /\ Len(inq) < InqCap
  /\ LET seq == NextSequence(tgt.outSeq)
         data == Stream(tgt.sent + 1, len)
     IN  /\ inq' = Append(inq, ReplyFrame(seq, data))
         /\ tgt' = [tgt EXCEPT !.outSeq = seq, !.outData = data,
                               !.sent = @ + len, !.events = @ + 1]
  /\ UNCHANGED <<enc, pgm, stats, dec, xbs, pc, op, at, wire, g>>

\* a target that obeys stop-and-wait sends a reply of at most
\* XBEEBOOT_MAX_CHUNK bytes once the host's ACK of its last one has come
PeerReply(len) ==
  /\ Polling
  /\ Opened
  /\ tgt.up
  /\ tgt.acked = tgt.outSeq
  /\ tgt.events < PeerEvents
  /\ Len(inq) < InqCap
  /\ LET seq == NextSequence(tgt.outSeq)
         data == Stream(tgt.sent + 1, len)
     IN  /\ inq' = Append(inq, ReplyFrame(seq, data))
         /\ tgt' = [tgt EXCEPT !.outSeq = seq, !.outData = data,
                               !.sent = @ + len, !.events = @ + 1]
  /\ UNCHANGED <<enc, pgm, stats, dec, xbs, pc, op, at, wire, g>>

\* the target sends its last reply again
TargetResend ==
  /\ Polling
  /\ Opened
  /\ tgt.up
  /\ tgt.outSeq # 0
  /\ Len(inq) < InqCap
  /\ inq' = Append(inq, ReplyFrame(tgt.outSeq, tgt.outData))
  /\ UNCHANGED <<enc, pgm, stats, dec, xbs, pc, op, at, wire, tgt, g>>

\* the serial device hands the host the frame f, as an event
Inbound(f) ==
  /\ Polling
  /\ tgt.up
  /\ tgt.events < MaxEvents
  /\ Len(inq) < InqCap
  /\ inq' = Append(inq, f)
  /\ tgt' = [tgt EXCEPT !.events = @ + 1]
  /\ UNCHANGED <<enc, pgm, stats, dec, xbs, pc, op, at, wire, g>>

\* the local XBee hands the host a Route Record Indicator
MeshFrame(f) == ~xbs.directMode /\ Inbound(f)

\* the Route Record Indicator of a route the target's frames took
RecordFrame(route) ==
  InFrame(API_ROUTE_RECORD, 0, 0, TRUE, TargetAddr16, << >>, Len(route), route)

\* the local XBee reports the route the target's frames took
MeshRecord(route) == MeshFrame(RecordFrame(route))

\* a route is reported once the session is open
RouteRecord(route) == Opened /\ MeshRecord(route)

(***************************************************************************)
(* Frames as bytes on the serial line.  sendAPIRequest writes 0x7E, the    *)
(* length of the payload in two bytes, the payload and the checksum, every *)
(* byte after the 0x7E through fpput; the loop at the head of xbeedev_poll *)
(* reads them back one at a time.                                          *)
(***************************************************************************)
\* v ^ 0x20 on an unsigned char
Xor20(v) == IF (v \div ESCAPE_XOR) % 2 = 1 THEN v - ESCAPE_XOR ELSE v + ESCAPE_XOR

\* variant: no byte is escaped
fpputPlain(v) == <<v>>

\* fpput: the bytes put into the frame for v
fpput(v) ==
  IF v \in {FRAME_ESCAPE, FRAME_DELIMITER, XON, XOFF}
  THEN <<FRAME_ESCAPE, Xor20(v)>> ELSE <<v>>

\* the sum of the bytes of s in an unsigned char (the loop over s, its two
\* halves summed apart)
RECURSIVE SumBytes(_)
SumBytes(s) ==
  IF Len(s) = 0 THEN 0
  ELSE IF Len(s) = 1 THEN s[1]
  ELSE (SumBytes(SubSeq(s, 1, Len(s) \div 2))
          + SumBytes(SubSeq(s, Len(s) \div 2 + 1, Len(s)))) % 256

\* fpput of every byte of s, in order
RECURSIVE PutAll(_)
PutAll(s) ==
  IF Len(s) = 0 THEN << >>
  ELSE IF Len(s) = 1 THEN fpput(s[1])
  ELSE PutAll(SubSeq(s, 1, Len(s) \div 2))
         \o PutAll(SubSeq(s, Len(s) \div 2 + 1, Len(s)))

\* unsigned char checksum = 0xff, then checksum -= v for every payload byte
Checksum(payload) == (255 - SumBytes(payload)) % 256

\* frame[0], then fpput(0); fpput(unescapedLength)
EncodePrefix(payload) ==
  <<FRAME_DELIMITER>> \o fpput(0) \o fpput(Len(payload) % 256)

\* the payload, then fpput(checksum)
EncodeBody(payload) == PutAll(payload) \o fpput(Checksum(payload))

\* the bytes sendAPIRequest hands to the serial device for a payload
Encode(payload) == EncodePrefix(payload) \o EncodeBody(payload)

\* the escaped payload and checksum fit sendAPIRequest's frame[]
Fits(payload) ==
  FRAME_DATA_OFFSET + Len(EncodeBody(payload)) <= FrameBufferSize

\* What the serial device is handed for a payload.  Beyond the end of
\* frame[] sendAPIRequest writes to memory that is not its own: the bytes
\* sent from there are the ones written, or the frame is cut at the end of
\* frame[].
Written(payload) ==
  IF Fits(payload) THEN {Encode(payload)}
  ELSE {Encode(payload),
        EncodePrefix(payload)
          \o SubSeq(EncodeBody(payload), 1, FrameBufferSize - FRAME_DATA_OFFSET)}

\* the decoder before a frame, nothing read and nothing dispatched
InitDecoder ==
  [rx |-> << >>,            \* the bytes the serial device will return
   state |-> "before_frame",
   index |-> 0,
   escaped |-> FALSE,
   frameSize |-> 2,
   frame |-> << >>,         \* frame[0 .. index-1]
   restarts |-> 0,          \* jumps to start_of_frame from within a frame
   dispatched |-> << >>,    \* the payloads of the frames passed on
   payload |-> << >>,       \* the payload that was framed
   junk |-> << >>,          \* the bytes put before its delimiter
   hit |-> << >>]           \* the corruption: position and new value

\* before_frame: the locals are dropped
BeforeFrame(d) ==
  [d EXCEPT !.state = "before_frame", !.index = 0, !.escaped = FALSE,
            !.frameSize = 2, !.frame = << >>]

\* start_of_frame
StartOfFrame(d) ==
  [d EXCEPT !.state = "in_frame", !.index = 0, !.escaped = FALSE,
            !.frameSize = 2, !.frame = << >>]

\* Too long - immediately give up on this frame
TooLong(frameSize) == frameSize >= FrameBufferSize

\* variant: every checksum passes
ChecksumAny(frame) == TRUE

\* checksum = 1, plus frame[2 .. index-1], is 0
ChecksumMatches(frame) == (1 + SumBytes(SubSeq(frame, 3, Len(frame)))) % 256 = 0

\* variant: an escaped 0x7E is data
RestartsUnescaped(d, byte) == byte = FRAME_DELIMITER /\ ~d.escaped

\* No matter when we receive a frame start byte, start a fresh frame
Restarts(d, byte) == byte = FRAME_DELIMITER

\* one byte read by the loop at the head of xbeedev_poll
DecodeByte(d, byte) ==
  IF d.state = "before_frame"
  THEN IF byte = FRAME_DELIMITER THEN StartOfFrame(d) ELSE d
  ELSE IF Restarts(d, byte)
  THEN [StartOfFrame(d) EXCEPT !.restarts = @ + 1]
  ELSE IF ~d.escaped /\ byte = FRAME_ESCAPE
  THEN [d EXCEPT !.escaped = TRUE]
  ELSE IF d.index >= FrameBufferSize
  THEN BeforeFrame(d)
  ELSE LET frame == Append(d.frame, IF d.escaped THEN Xor20(byte) ELSE byte)
           index == d.index + 1
           frameSize == IF index = 2 THEN frame[1] * 256 + frame[2] + 2 + 1
                        ELSE d.frameSize
       IN  IF index = 2 /\ TooLong(frameSize)
           THEN BeforeFrame(d)
           ELSE IF index < frameSize
           THEN [d EXCEPT !.index = index, !.escaped = FALSE,
                          !.frameSize = frameSize, !.frame = frame]
           ELSE IF ~ChecksumMatches(frame)
           THEN BeforeFrame(d)
           ELSE [BeforeFrame(d) EXCEPT
                   !.dispatched = Append(@, SubSeq(frame, 3, index - 1))]

\* the serial device returns its next byte to xbeedev_poll
PollByte ==
  /\ dec.rx # << >>
  /\ dec' = [DecodeByte(dec, Head(dec.rx)) EXCEPT !.rx = Tail(dec.rx)]
  /\ UNCHANGED <<xbs, pc, op, at, wire, inq, tgt, g, pgm, stats, enc>>

(***************************************************************************)
(* The specification.                                                      *)
(***************************************************************************)
Init ==
  /\ dec = InitDecoder
  /\ pgm = xbee_initpgm
  /\ stats = << >>
  /\ enc = << >>
  /\ \E direct \in BOOLEAN : xbs = XBeeBootSessionInit(direct)
  /\ pc = "open"
  /\ op = NoOp
  /\ at = NoAT
  /\ wire = << >>
  /\ inq = << >>
  /\ tgt = InitTarget
  /\ g = InitHistory

Next ==
  \/ Open
  \/ OpenAR
  \/ OpenD6
  \/ \E len \in SendLens : ClientSend(len)
  \/ SendWrite
  \/ SendAck
  \/ \E len \in RecvLens : ClientRecv(len)
  \/ RecvAck
  \/ ClientDrain
  \/ \E is_on \in BOOLEAN : ClientSetDtrRts(is_on)
  \/ ClientClose
  \/ PollFrame
  \/ PollTimeout
  \/ Deliver
  \/ LoseOut
  \/ LoseIn
  \/ LinkDown
  \/ \E len \in ReplyLens : TargetSend(len)
  \/ TargetResend
  \/ \E route \in Routes : RouteRecord(route)

Spec == Init /\ [][Next]_vars

(***************************************************************************)
(* xbee_open: serial_open, which is xbeedev_open; xbeedev_setresetpin; the *)
(* reset pulse, serial_set_dtr_rts(0) and (1), whose return codes are not  *)
(* looked at; and xbee_getsync, STK_GET_SYNC sent and two bytes received.  *)
(* Routes are reported and frames are lost from the start, and the link    *)
(* can go down.                                                            *)
(***************************************************************************)
ResetPins == {XBEE_DEFAULT_RESET_PIN, 5}

\* xbee_open once serial_open has returned 0
xbee_open ==
  /\ pc = "idle"
  /\ \/ \* xbeedev_setresetpin and serial_set_dtr_rts(0)
        /\ g.opName = "open"
        /\ \E pin \in ResetPins :
             xbeedev_set_dtr_rts([xbs EXCEPT !.xbeeResetPin = pin], FALSE)
     \/ \* serial_set_dtr_rts(1)
        /\ g.ops = 1
        /\ xbeedev_set_dtr_rts(xbs, TRUE)
     \/ \* xbee_getsync: serial_send of STK_GET_SYNC
        /\ g.ops = 2
        /\ xbeedev_send(<<Cmnd_STK_GET_SYNC, Sync_CRC_EOP>>)
     \/ \* xbee_getsync: serial_recv of the two bytes of the response
        /\ g.ops = 3
        /\ g.rc >= 0
        /\ xbeedev_recv(2)

OpenNext ==
  \/ Open
  \/ OpenAR
  \/ OpenD6
  \/ xbee_open
  \/ SendWrite
  \/ SendAck
  \/ RecvAck
  \/ PollFrame
  \/ PollTimeout
  \/ Deliver
  \/ LoseOut
  \/ LoseIn
  \/ LinkDown
  \/ \E route \in Routes : MeshRecord(route)
  \/ \E len \in RecvLens : TargetSend(len)

OpenSpec == Init /\ [][OpenNext]_vars

(***************************************************************************)
(* The direct-mode session: the port string names no address, the far end  *)
(* is the bootloader itself, and the serial device can hand the host any   *)
(* frame, a Route Record Indicator that bears the all-zero address of the  *)
(* session included.                                                       *)
(***************************************************************************)
DirectInit ==
  /\ dec = InitDecoder
  /\ pgm = xbee_initpgm
  /\ stats = << >>
  /\ enc = << >>
  /\ xbs = XBeeBootSessionInit(TRUE)
  /\ pc = "open"
  /\ op = NoOp
  /\ at = NoAT
  /\ wire = << >>
  /\ inq = << >>
  /\ tgt = InitTarget
  /\ g = InitHistory

DirectNext ==
  \/ Open
  \/ \E len \in SendLens : ClientSend(len)
  \/ SendWrite
  \/ SendAck
  \/ \E len \in RecvLens : ClientRecv(len)
  \/ RecvAck
  \/ ClientDrain
  \/ \E is_on \in BOOLEAN : ClientSetDtrRts(is_on)
  \/ ClientClose
  \/ PollFrame
  \/ PollTimeout
  \/ Deliver
  \/ LoseIn
  \/ \E len \in ReplyLens : TargetSend(len)
  \/ \E route \in Routes : Inbound(RecordFrame(route))

DirectSpec == DirectInit /\ [][DirectNext]_vars

(***************************************************************************)
(* The sending session on a link that recovers: the serial device is       *)
(* sound, the link stays up, the client only sends, frames are lost and    *)
(* polls time out early only as events, so that fewer than                 *)
(* XBEE_MAX_RETRIES transmissions of a chunk fail, and a poll with nothing *)
(* in flight times out.  The host takes its next step, and a frame in      *)
(* flight that is not lost arrives.                                        *)
(***************************************************************************)
LiveInit ==
  /\ dec = InitDecoder
  /\ pgm = xbee_initpgm
  /\ stats = << >>
  /\ enc = << >>
  /\ \E direct \in BOOLEAN : xbs = XBeeBootSessionInit(direct)
  /\ pc = "open"
  /\ op = NoOp
  /\ at = NoAT
  /\ wire = << >>
  /\ inq = << >>
  /\ tgt = [InitTarget EXCEPT !.faulty = FALSE]
  /\ g = InitHistory

HostStep ==
  \/ Open
  \/ OpenAR
  \/ OpenD6
  \/ SendWrite
  \/ SendAck
  \/ PollFrame
  \/ QuietTimeout

LiveNext ==
  \/ HostStep
  \/ \E len \in SendLens : ClientSend(len)
  \/ PollTimeout
  \/ Arrive
  \/ DropOut
  \/ DropIn
  \/ \E len \in ReplyLens : TargetSend(len)

LiveSpec ==
  /\ LiveInit
  /\ [][LiveNext]_vars
  /\ WF_vars(HostStep)
  /\ WF_vars(Arrive)

(***************************************************************************)
(* The session on a mesh that reports routes from the start: routes are    *)
(* reported while xbeedev_open polls as well, no frame is lost, and the    *)
(* link stays up.                                                          *)
(***************************************************************************)
RouteNext ==
  \/ Open
  \/ OpenAR
  \/ OpenD6
  \/ \E len \in SendLens : ClientSend(len)
  \/ SendWrite
  \/ SendAck
  \/ \E len \in RecvLens : ClientRecv(len)
  \/ RecvAck
  \/ \E is_on \in BOOLEAN : ClientSetDtrRts(is_on)
  \/ ClientClose
  \/ PollFrame
  \/ PollTimeout
  \/ Deliver
  \/ \E route \in Routes : MeshRecord(route)
  \/ \E len \in ReplyLens : TargetSend(len)

RouteSpec == Init /\ [][RouteNext]_vars

(***************************************************************************)
(* The session's AT operations on a mesh that hands the host Route Record  *)
(* Indicators of every kind: routes of 0, 1, 2, 40 and 41 hops of the      *)
(* target, a frame whose hop count exceeds the addresses it carries, and   *)
(* the route of another XBee.                                              *)
(***************************************************************************)
RecordFrames ==
  {RecordFrame(route) :
     route \in Routes \cup {Stream(1, 2), Stream(1, XBEE_MAX_INTERMEDIATE_HOPS),
                            Stream(1, XBEE_MAX_INTERMEDIATE_HOPS + 1)}}
  \cup {[RecordFrame(Stream(1, 2)) EXCEPT !.hops = 3],
        [RecordFrame(Stream(1, 2)) EXCEPT !.from64 = FALSE]}

RecordNext ==
  \/ Open
  \/ OpenAR
  \/ OpenD6
  \/ \E is_on \in BOOLEAN : ClientSetDtrRts(is_on)
  \/ ClientClose
  \/ PollFrame
  \/ PollTimeout
  \/ Deliver
  \/ \E f \in RecordFrames : MeshFrame(f)

RecordSpec == Init /\ [][RecordNext]_vars

(***************************************************************************)
(* xbeedev_send of buffers of several chunks, to a target that answers     *)
(* with ACKs only, over routes of 0, 1, 25, 26 and 40 hops that may be     *)
(* reported at any time.                                                   *)
(***************************************************************************)
ChunkLens == {3, 100}

ChunkRoutes ==
  Routes \cup {Stream(1, 25), Stream(1, 26), Stream(1, XBEE_MAX_INTERMEDIATE_HOPS)}

ChunkNext ==
  \/ Open
  \/ OpenAR
  \/ OpenD6
  \/ \E len \in ChunkLens : ClientSend(len)
  \/ SendWrite
  \/ PollFrame
  \/ PollTimeout
  \/ Deliver
  \/ \E route \in ChunkRoutes : MeshRecord(route)

ChunkSpec == Init /\ [][ChunkNext]_vars

(***************************************************************************)
(* A session that has been open for long: the client is between two         *)
(* operations, the three sequence counters are about to wrap around, and   *)
(* the target has accepted and sent what the counters tell.                *)
(***************************************************************************)
WrapStarts == {254, 255}

WrapInit ==
  /\ \E direct \in BOOLEAN, t \in WrapStarts, s \in WrapStarts :
       /\ xbs = [XBeeBootSessionInit(direct) EXCEPT
                   !.txSequence = t, !.outSequence = s, !.inSequence = s]
       /\ tgt = [InitTarget EXCEPT !.inLast = s, !.outSeq = s, !.acked = s]
       /\ g = [InitHistory EXCEPT !.opName = "send", !.done = TRUE,
                                  !.lastId = t]
  /\ pc = "idle"
  /\ op = NoOp
  /\ at = NoAT
  /\ wire = << >>
  /\ inq = << >>
  /\ dec = InitDecoder
  /\ pgm = xbee_initpgm
  /\ stats = << >>
  /\ enc = << >>

WrapNext ==
  \/ \E len \in SendLens : ClientSend(len)
  \/ SendWrite
  \/ SendAck
  \/ \E len \in RecvLens : ClientRecv(len)
  \/ RecvAck
  \/ \E is_on \in BOOLEAN : ClientSetDtrRts(is_on)
  \/ ClientClose
  \/ PollFrame
  \/ PollTimeout
  \/ Deliver
  \/ \E len \in ReplyLens : TargetSend(len)

WrapSpec == WrapInit /\ [][WrapNext]_vars

(***************************************************************************)
(* The session with a target that obeys stop-and-wait: its replies are of  *)
(* at most XBEEBOOT_MAX_CHUNK bytes, each sent after the host's ACK of the *)
(* one before.  Frames to the host can be lost.                            *)
(***************************************************************************)
PeerLens == {2, XBEEBOOT_MAX_CHUNK}

RingNext ==
  \/ Open
  \/ OpenAR
  \/ OpenD6
  \/ \E len \in SendLens : ClientSend(len)
  \/ SendWrite
  \/ SendAck
  \/ \E len \in RecvLens : ClientRecv(len)
  \/ RecvAck
  \/ ClientDrain
  \/ \E is_on \in BOOLEAN : ClientSetDtrRts(is_on)
  \/ PollFrame
  \/ PollTimeout
  \/ Deliver
  \/ LoseIn
  \/ \E len \in PeerLens : PeerReply(len)

RingSpec == Init /\ [][RingNext]_vars

(***************************************************************************)
(* The framing alone: xbeedev_recv polls on a direct-mode session, and the *)
(* serial device returns the bytes of one frame written by the encoder:    *)
(* as they are, behind bytes left over from an earlier frame, or with one  *)
(* byte replaced.                                                          *)
(***************************************************************************)
\* the payloads framed: every single byte, and payloads of the lengths
\* about an escaped length byte and about the size of frame[], filled with
\* bytes that are or are not escaped
Payloads ==
  LET PayloadLens == {0, 2, 17, 124, 125, 126, 250, 251, 252, 253}
      Fills == {0, 17, 125, 126, 255}
  IN  {<<b>> : b \in 0..255}
      \cup {[i \in 1..n |-> f] : n \in PayloadLens, f \in Fills}
      \cup {Stream(1, n) : n \in PayloadLens}

\* payloads with a shorter frame, or a frame of their own, inside
CraftedPayloads ==
  {<<16, 239, 0>>, <<1, 0, 1, 65, 190>>, <<125, 94>>, <<17>>, <<8, 1, 65, 80>>}

\* what the decoder may have read before the frame: nothing, noise, the
\* delimiter, part of the length, part of the payload, all but the
\* checksum, an escape in the payload or in the length, and a whole frame
Junk ==
  {<< >>, <<85>>, <<126>>, <<126, 0>>, <<126, 0, 5, 1, 2>>, <<126, 0, 1, 66>>,
   <<126, 0, 1, 125>>, <<126, 125>>, <<126, 0, 0, 255>>}

CodecInit ==
  /\ pgm = xbee_initpgm
  /\ stats = << >>
  /\ enc = << >>
  /\ xbs = XBeeBootSessionInit(TRUE)
  /\ pc = "recv_poll"
  /\ op = [NoOp EXCEPT !.name = "recv", !.buflen = 1]
  /\ at = NoAT
  /\ wire = << >>
  /\ inq = << >>
  /\ tgt = InitTarget
  /\ g = [InitHistory EXCEPT !.ops = 1, !.opName = "recv", !.asked = 1]
  /\ \/ \E payload \in Payloads, junk \in Junk :
          \E bytes \in Written(payload) :
            dec = [InitDecoder EXCEPT !.rx = junk \o bytes,
                                      !.payload = payload, !.junk = junk]
     \/ \E payload \in CraftedPayloads :
          \E p \in 2..Len(Encode(payload)), v \in 0..255 :
            /\ v # Encode(payload)[p]
            /\ dec = [InitDecoder EXCEPT
                        !.rx = [Encode(payload) EXCEPT ![p] = v],
                        !.payload = payload, !.hit = <<p, v>>]

CodecSpec == CodecInit /\ [][PollByte]_vars

(***************************************************************************)
(* The arguments of a run: the extended parameters xbee_parseextparms is   *)
(* given, and the port string xbeedev_open parses before it opens the      *)
(* serial device.  Strings are sequences of character codes.               *)
(***************************************************************************)
\* the longest extended parameter value tried
MaxValLen == 3

\* "xbeeresetpin="
ResetPinKey == <<120, 98, 101, 101, 114, 101, 115, 101, 116, 112, 105, 110, 61>>

\* variant: 7, the CTS pin, is refused
PinRefusedBelow7(resetpin) == resetpin <= 0 \/ resetpin >= 7

\* resetpin <= 0 || resetpin > 7
PinRefused(resetpin) == resetpin <= 0 \/ resetpin > 7

\* xbee_parseextparms on the PROGRAMMER p: every parameter of the list is
\* looked at, a good xbeeresetpin sets the flag, and rc is -1 if any
\* parameter was bad.  sscanf_i is sscanf(str, "%i", &v): white space is
\* skipped, a sign is taken, a leading 0 makes the number octal, and the
\* digits are read up to the first character that is not one; n is 0 if
\* there is no digit.  (Hexadecimal prefixes are not among the inputs.)
xbee_parseextparms(p) ==
  LET parms == p.extparms
      sscanf_i(str) ==
        LET n == Len(str)
            start == IF \E i \in 1..n : str[i] # 32
                     THEN CHOOSE i \in 1..n :
                            str[i] # 32 /\ \A j \in 1..(i - 1) : str[j] = 32
                     ELSE n + 1
            signed == start <= n /\ str[start] \in {43, 45}
            first == IF signed THEN start + 1 ELSE start
            base == IF first <= n /\ str[first] = 48 THEN 8 ELSE 10
            Digit(c) == c >= 48 /\ c < 48 + base
            last == IF first <= n /\ Digit(str[first])
                    THEN CHOOSE k \in first..n :
                           /\ \A j \in first..k : Digit(str[j])
                           /\ k < n => ~Digit(str[k + 1])
                    ELSE first - 1
            val[k \in (first - 1)..n] ==
              IF k < first THEN 0 ELSE val[k - 1] * base + (str[k] - 48)
        IN  IF last < first THEN [n |-> 0, v |-> 0]
            ELSE [n |-> 1, v |-> IF signed /\ str[start] = 45 THEN 0 - val[last]
                                 ELSE val[last]]
      after[k \in 0..Len(parms)] ==
        IF k = 0 THEN [p EXCEPT !.rc = 0, !.stage = "parsed"]
        ELSE LET extended_param == parms[k]
                 scan == sscanf_i(Drop(extended_param, Len(ResetPinKey)))
             IN  IF /\ Len(extended_param) >= Len(ResetPinKey)
                    /\ SubSeq(extended_param, 1, Len(ResetPinKey)) = ResetPinKey
                 THEN IF scan.n # 1 \/ PinRefused(scan.v)
                      THEN [after[k - 1] EXCEPT !.rc = -1]
                      ELSE [after[k - 1] EXCEPT !.flag = scan.v]
                 ELSE [after[k - 1] EXCEPT !.rc = -1]
  IN  after[Len(parms)]

\* variant: every port string opens a direct-mode session
PortAddressAny(p) ==
  [p EXCEPT !.rc = 0, !.stage = "session", !.directMode = TRUE,
            !.address = [i \in 1..8 |-> 0] \o <<255, 254>>]

\* xbeedev_open up to serial_open, on the PROGRAMMER p: the address is read
\* two digits a byte up to the first '@', and the loop leaves off after the
\* character that is no digit, or after the digit that fills the 8th byte
PortAddress(p) ==
  LET port == p.port
      HexValue(hex) ==
        IF hex >= 48 /\ hex <= 57 THEN hex - 48
        ELSE IF hex >= 65 /\ hex <= 70 THEN hex - 65 + 10
        ELSE IF hex >= 97 /\ hex <= 102 THEN hex - 97 + 10
        ELSE -1
      sep == IF \E i \in 1..Len(port) : port[i] = 64
             THEN CHOOSE i \in 1..Len(port) :
                    port[i] = 64 /\ \A j \in 1..(i - 1) : port[j] # 64
             ELSE 0
      loop[k \in 0..Len(port)] ==
        IF k = 0
        THEN [address |-> 1, addrIndex |-> 0, nybble |-> -1, bytes |-> << >>,
              left |-> FALSE]
        ELSE LET l == loop[k - 1]
                 val == HexValue(port[k])
             IN  IF l.left \/ l.address = sep THEN [l EXCEPT !.left = TRUE]
                 ELSE IF val = -1
                 THEN [l EXCEPT !.address = @ + 1, !.left = TRUE]
                 ELSE IF l.nybble = -1
                 THEN [l EXCEPT !.address = @ + 1, !.nybble = val]
                 ELSE [l EXCEPT !.address = @ + 1, !.nybble = -1,
                                !.bytes = Append(@, l.nybble * 16 + val),
                                !.addrIndex = @ + 1,
                                !.left = l.addrIndex + 1 = 8]
      end == loop[Len(port)]
  IN  IF sep = 0 THEN [p EXCEPT !.rc = -1, !.stage = "syntax"]
      ELSE IF sep = 1
      THEN [p EXCEPT !.rc = 0, !.stage = "session", !.directMode = TRUE,
                     !.address = [i \in 1..8 |-> 0] \o <<255, 254>>]
      ELSE IF end.addrIndex # 8 \/ end.address # sep \/ end.nybble # -1
      THEN [p EXCEPT !.rc = -1, !.stage = "address"]
      ELSE [p EXCEPT !.rc = 0, !.stage = "session", !.directMode = FALSE,
                     !.address = end.bytes \o <<255, 254>>]

\* The extended parameter lists tried: one xbeeresetpin with any value of
\* at most MaxValLen characters out of "017 8-q" and the blank, other
\* parameters, and lists of two
\* The port strings tried: the address 0013a2FF1234567e and /dev/t, the
\* address cut short or with one character replaced or added, and strings
\* without '@' or with two
ArgsInit ==
  /\ dec = InitDecoder
  /\ stats = << >>
  /\ enc = << >>
  /\ xbs = XBeeBootSessionInit(TRUE)
  /\ pc = "args"
  /\ op = NoOp
  /\ at = NoAT
  /\ wire = << >>
  /\ inq = << >>
  /\ tgt = InitTarget
  /\ g = InitHistory
  /\ LET ParmLists ==
          LET chars == {48, 49, 55, 56, 45, 32, 113}
              vals == UNION {[1..n -> chars] : n \in 0..MaxValLen}
              pin(v) == ResetPinKey \o v
              other == {<<98, 97, 117, 100, 61, 53>>, SubSeq(ResetPinKey, 1, 12),
                        SubSeq(ResetPinKey, 1, 12) \o <<32, 53>>, << >>}
              few == {pin(<<53>>), pin(<<55>>), pin(<<56>>), pin(<<48>>), pin(<< >>),
                      <<98, 97, 117, 100, 61, 53>>}
          IN  {<< >>} \cup {<<pin(v)>> : v \in vals} \cup {<<o>> : o \in other}
              \cup {<<a, b>> : a \in few, b \in few}
         Ports ==
          LET addr == <<48, 48, 49, 51, 97, 50, 70, 70, 49, 50, 51, 52, 53, 54, 55, 101>>
              chars == {48, 57, 65, 70, 97, 102, 71, 103, 64, 47, 58, 96, 32}
              tty == <<47, 100, 101, 118, 47, 116>>
              parts == {SubSeq(addr, 1, n) : n \in 0..16}
                       \cup {[addr EXCEPT ![i] = c] : i \in 1..16, c \in chars}
                       \cup {SubSeq(addr, 1, i) \o <<c>> \o SubSeq(addr, i + 1, 16) :
                               i \in {0, 8, 15, 16}, c \in chars}
          IN  {part \o <<64>> \o tty : part \in parts}
              \cup {part \o tty : part \in {<< >>, addr}}
              \cup {part \o <<64>> \o t : part \in {<< >>, addr},
                                          t \in {<< >>, <<64>>, <<97, 64, 98>>}}
     IN  \/ \E extparms \in ParmLists :
               pgm = [xbee_initpgm EXCEPT !.extparms = extparms,
                                          !.port = <<64, 116>>]
         \/ \E port \in Ports : pgm = [xbee_initpgm EXCEPT !.port = port]

\* pgm->parseextparams, called once before the programmer is opened
ParseExtParms ==
  /\ pc = "args"
  /\ pgm.stage = "init"
  /\ pgm' = xbee_parseextparms(pgm)
  /\ UNCHANGED <<xbs, pc, op, at, wire, inq, tgt, g, dec, stats, enc>>

\* xbeedev_open up to serial_open: the session is allocated only for a port
\* string with '@', and freed again if the address is bad
OpenParse ==
  /\ pc = "args"
  /\ pgm.stage = "parsed"
  /\ pgm.rc = 0
  /\ pgm' = PortAddress(pgm)
  /\ IF pgm'.rc = 0
     THEN /\ pc' = "open"
          /\ xbs' = [XBeeBootSessionInit(pgm'.directMode) EXCEPT
                       !.addr64 = SubSeq(pgm'.address, 1, 8),
                       !.addr16 = pgm'.address[9] * 256 + pgm'.address[10]]
          /\ g' = g
     ELSE /\ pc' = "closed"
          /\ xbs' = xbs
          /\ g' = [g EXCEPT !.done = TRUE, !.rc = -1]
  /\ UNCHANGED <<op, at, wire, inq, tgt, dec, stats, enc>>

ArgsSpec == ArgsInit /\ [][ParseExtParms \/ OpenParse \/ Open]_vars

(***************************************************************************)
(* The statistics of a session: the send time of each sequence of each     *)
(* group and the summary of each group, from the memory malloc returns to  *)
(* the summaries xbee_close prints.  The clock counts half seconds and     *)
(* starts at 2 s; the memory's cells all hold 0 or all hold 1.             *)
(***************************************************************************)
XBEE_STATS_GROUPS == 4

\* the sequences frames are sent and received with
MaxStatSeq == 2

\* the frames sent and received in a session
MaxStatEvents == 3

\* the latest time of the clock, in half seconds
MaxTicks == 6

StatsInit ==
  /\ enc = << >>
  /\ dec = InitDecoder
  /\ pgm = xbee_initpgm
  /\ \E direct \in BOOLEAN : xbs = XBeeBootSessionInit(direct)
  /\ pc = "open"
  /\ op = NoOp
  /\ at = NoAT
  /\ wire = << >>
  /\ inq = << >>
  /\ tgt = InitTarget
  /\ g = InitHistory
  /\ \E junk \in {0, 1} :
       stats = [stage |-> "raw", now |-> 4, events |-> 0,
                sendTime |-> [c \in (0..(XBEE_STATS_GROUPS - 1)) \X (1..MaxStatSeq)
                                |-> [tv_sec |-> junk, tv_usec |-> junk]],
                groupSummary |-> [group \in 0..(XBEE_STATS_GROUPS - 1) |->
                                    [minimum |-> [tv_sec |-> junk, tv_usec |-> junk],
                                     maximum |-> [tv_sec |-> junk, tv_usec |-> junk],
                                     sum |-> [tv_sec |-> junk, tv_usec |-> junk],
                                     samples |-> junk]],
                average |-> << >>]

\* XBeeBootSessionInit: for (group = 0; group < 3; group++) the tv_sec of
\* every send time is set to 0 and xbeeStatsReset zeroes the summary
SessionInit ==
  /\ stats.stage = "raw"
  /\ stats' = [stats EXCEPT
       !.stage = "open",
       !.sendTime = [c \in DOMAIN @ |->
                       IF c[1] < 3 THEN [@[c] EXCEPT !.tv_sec = 0] ELSE @[c]],
       !.groupSummary = [group \in DOMAIN @ |->
                           IF group < 3
                           THEN [minimum |-> [tv_sec |-> 0, tv_usec |-> 0],
                                 maximum |-> [tv_sec |-> 0, tv_usec |-> 0],
                                 sum |-> [tv_sec |-> 0, tv_usec |-> 0],
                                 samples |-> 0]
                           ELSE @[group]]]
  /\ UNCHANGED <<xbs, pc, op, at, wire, inq, tgt, g, dec, pgm, enc>>

\* xbeedev_stats_send, dt half seconds after the latest event: a frame of
\* the group is written with the sequence, and gettimeofday is its send
\* time.  No local AT frame is written in direct mode.
StatsSend(group, sequence, dt) ==
  /\ stats.stage = "open"
  /\ stats.events < MaxStatEvents
  /\ stats.now + dt <= MaxTicks
  /\ xbs.directMode => group # 0
  /\ LET time == [tv_sec |-> (stats.now + dt) \div 2,
                  tv_usec |-> ((stats.now + dt) % 2) * 500000]
     IN  stats' = [stats EXCEPT !.now = @ + dt, !.events = @ + 1,
                                !.sendTime[<<group, sequence>>] = time]
  /\ UNCHANGED <<xbs, pc, op, at, wire, inq, tgt, g, dec, pgm, enc>>

\* xbeedev_stats_receive and xbeeStatsAdd, dt half seconds after the latest
\* event: a frame of the group is read with the sequence
StatsReceive(group, sequence, dt) ==
  /\ stats.stage = "open"
  /\ stats.events < MaxStatEvents
  /\ stats.now + dt <= MaxTicks
  /\ LET receiveTime == [tv_sec |-> (stats.now + dt) \div 2,
                         tv_usec |-> ((stats.now + dt) % 2) * 500000]
         sendTime == stats.sendTime[<<group, sequence>>]
         usecs == receiveTime.tv_usec - sendTime.tv_usec
         secs == receiveTime.tv_sec - sendTime.tv_sec
         sample == IF usecs < 0
                   THEN [tv_sec |-> secs - 1, tv_usec |-> usecs + 1000000]
                   ELSE [tv_sec |-> secs, tv_usec |-> usecs]
         summary == stats.groupSummary[group]
         usec == summary.sum.tv_usec + sample.tv_usec
         sum == IF usec > 1000000
                THEN [tv_sec |-> summary.sum.tv_sec + 1 + sample.tv_sec,
                      tv_usec |-> usec - 1000000]
                ELSE [tv_sec |-> summary.sum.tv_sec + sample.tv_sec,
                      tv_usec |-> usec]
         Before(a, b) == \/ a.tv_sec < b.tv_sec
                         \/ a.tv_sec = b.tv_sec /\ a.tv_usec < b.tv_usec
     IN  stats' = [stats EXCEPT
           !.now = @ + dt, !.events = @ + 1,
           !.groupSummary[group] =
              [minimum |-> IF summary.samples = 0 \/ Before(sample, summary.minimum)
                           THEN sample ELSE summary.minimum,
               maximum |-> IF Before(summary.maximum, sample)
                           THEN sample ELSE summary.maximum,
               sum |-> sum,
               samples |-> summary.samples + 1]]
  /\ UNCHANGED <<xbs, pc, op, at, wire, inq, tgt, g, dec, pgm, enc>>

\* xbee_close: xbeeStatsSummarise of the four groups in turn.  The division
\* by a sample count of 0 is undefined: the process is stopped by a trap,
\* or goes on with some average.
StatsClose ==
  /\ stats.stage = "open"
  /\ LET average(summary) ==
           LET samples == summary.samples
               usecs == (summary.sum.tv_usec
                         + (summary.sum.tv_sec % samples) * 1000000) \div samples
           IN  [tv_sec |-> summary.sum.tv_sec \div samples + usecs \div 1000000,
                tv_usec |-> usecs % 1000000]
         defined == \A group \in DOMAIN stats.groupSummary :
                      stats.groupSummary[group].samples # 0
     IN  \/ /\ defined
            /\ stats' = [stats EXCEPT
                 !.stage = "closed",
                 !.average = [group \in DOMAIN stats.groupSummary |->
                                average(stats.groupSummary[group])]]
         \/ /\ ~defined
            /\ \/ stats' = [stats EXCEPT !.stage = "trapped"]
               \/ \E any \in {0, 1} :
                    stats' = [stats EXCEPT
                      !.stage = "closed",
                      !.average = [group \in DOMAIN stats.groupSummary |->
                         IF stats.groupSummary[group].samples # 0
                         THEN average(stats.groupSummary[group])
                         ELSE [tv_sec |-> any, tv_usec |-> any]]]
  /\ UNCHANGED <<xbs, pc, op, at, wire, inq, tgt, g, dec, pgm, enc>>

StatsSpec ==
  StatsInit /\ [][
  \/ SessionInit
  \/ \E group \in 0..(XBEE_STATS_GROUPS - 1), sequence \in 1..MaxStatSeq, dt \in 0..1 :
       StatsSend(group, sequence, dt)
  \/ \E group \in 0..(XBEE_STATS_GROUPS - 1), sequence \in 1..MaxStatSeq, dt \in 0..1 :
       StatsReceive(group, sequence, dt)
  \/ StatsClose]_vars

(***************************************************************************)
(* sendAPIRequest building one frame in frame[256]: the arguments are those *)
(* of its call sites, with field values and data that fpput escapes or     *)
(* does not.  enc.buf[i + 1] is frame[i]; -1 is a byte never written.      *)
(***************************************************************************)
\* the calls: sendPacket for a REQUEST with data of up to XBEEBOOT_MAX_CHUNK
\* bytes or for an ACK, in either mode; localAT and sendAT with two or three
\* bytes; the Create Source Route for a cached route of up to
\* XBEE_MAX_INTERMEDIATE_HOPS hops.  The frame id, the sequence and the
\* address are bytes fpput escapes, or none of them is.
EncoderInit ==
  /\ xbs = XBeeBootSessionInit(TRUE)
  /\ pc = "idle"
  /\ op = NoOp
  /\ at = NoAT
  /\ wire = << >>
  /\ inq = << >>
  /\ tgt = InitTarget
  /\ g = InitHistory
  /\ dec = InitDecoder
  /\ pgm = xbee_initpgm
  /\ stats = << >>
  /\ \E escaped \in BOOLEAN :
     LET Ids == {IF escaped THEN FRAME_ESCAPE ELSE 1}
         Seqs == {IF escaped THEN FRAME_DELIMITER ELSE 1}
         Addr16s == {IF escaped THEN XON * 256 + XOFF ELSE TargetAddr16}
         Addr64s == {IF escaped THEN [i \in 1..8 |-> XON] ELSE TargetAddr64}
         Fills == {0, FRAME_DELIMITER}
         Packets ==
           {OutFrame(API_RECEIVE_PACKET, id, -1, a, -1, -1, t[1], seq, t[2],
                     [i \in 1..n |-> f]) :
              id \in Ids, a \in Addr16s, seq \in Seqs, f \in Fills,
              n \in 0..XBEEBOOT_MAX_CHUNK,
              t \in {<<XBEEBOOT_PACKET_TYPE_REQUEST, FIRMWARE_DELIVER>>,
                     <<XBEEBOOT_PACKET_TYPE_ACK, -1>>}}
           \cup {OutFrame(API_TRANSMIT_REQUEST, id, -1, a, 0, 0, t[1], seq,
                          t[2], [i \in 1..n |-> f]) :
                   id \in Ids, a \in Addr16s, seq \in Seqs, f \in Fills,
                   n \in 0..XBEEBOOT_MAX_CHUNK,
                   t \in {<<XBEEBOOT_PACKET_TYPE_REQUEST, FIRMWARE_DELIVER>>,
                          <<XBEEBOOT_PACKET_TYPE_ACK, -1>>}}
         ATCalls ==
           {OutFrame(API_LOCAL_AT, id, -1, -1, -1, -1, -1, -1, -1, buf) :
              id \in Ids, buf \in {<<65, 80>>, <<65, 80, 2>>, <<68, 54, XON>>}}
           \cup {OutFrame(API_REMOTE_AT, id, -1, a, -1, -1, -1, 2, -1, buf) :
                   id \in Ids, a \in Addr16s,
                   buf \in {<<70, 82>>, <<68, 51, 5>>, <<68, 51, XOFF>>}}
         RouteCalls ==
           {OutFrame(API_CREATE_SOURCE_ROUTE, 0, -1, a, 0, hops, -1, -1, -1,
                     [i \in 1..hops |-> r]) :
              a \in Addr16s, hops \in 0..XBEE_MAX_INTERMEDIATE_HOPS,
              r \in {1, FRAME_ESCAPE * 256 + FRAME_DELIMITER}}
     IN  \E frame \in Packets \cup ATCalls \cup RouteCalls :
         \E addr64 \in Addr64s :
           enc = [stage |-> "called",
                  payload |-> FramePayload(frame, addr64),
                  buf |-> [i \in 1..FrameBufferSize |-> -1],
                  fp |-> FRAME_DATA_OFFSET, dataStart |-> FRAME_DATA_OFFSET,
                  length |-> 0, outside |-> FALSE, finalLength |-> 0,
                  frameStart |-> 0, sent |-> << >>]

\* fpput of the API type, the fields, the address and the data, which is
\* the payload composed; unescapedLength = length; fpput(checksum);
\* finalLength = fp - dataStart.  length is an unsigned char; a write beyond
\* frame[255] is noted in outside.
PutPayload ==
  /\ enc.stage = "called"
  /\ LET bytes == PutAll(enc.payload) \o fpput(Checksum(enc.payload))
         fp == enc.fp + Len(bytes)
     IN  enc' = [enc EXCEPT
                   !.stage = "payload",
                   !.buf = SubSeq(SubSeq(@, 1, enc.fp) \o bytes
                                    \o SubSeq(@, fp + 1, FrameBufferSize),
                                  1, FrameBufferSize),
                   !.fp = fp,
                   !.length = Len(enc.payload) % 256,
                   !.outside = fp > FrameBufferSize,
                   !.finalLength = fp - enc.dataStart]
  /\ UNCHANGED <<xbs, pc, op, at, wire, inq, tgt, g, dec, pgm, stats>>

\* variant: the prefix is sent from where it was written, frame[0]
PutPrefixInPlace ==
  /\ enc.stage = "payload"
  /\ LET prefix == <<FRAME_DELIMITER>> \o fpput(0) \o fpput(enc.length)
         buf == prefix \o SubSeq(enc.buf, Len(prefix) + 1, FrameBufferSize)
         last == Min(enc.finalLength + Len(prefix), FrameBufferSize)
     IN  enc' = [enc EXCEPT
                   !.stage = "sent", !.buf = buf, !.fp = Len(prefix),
                   !.frameStart = 0,
                   !.sent = SubSeq(buf, 1, last)]
  /\ UNCHANGED <<xbs, pc, op, at, wire, inq, tgt, g, dec, pgm, stats>>

\* frame[0] = 0x7e; fp = &frame[1]; fpput(0); fpput(unescapedLength);
\* prefixLength = fp - frame; frameStart = dataStart - prefixLength;
\* memmove(frameStart, frame, prefixLength); then the serial device's send
\* of finalLength + prefixLength bytes from frameStart
PutPrefix ==
  /\ enc.stage = "payload"
  /\ LET prefix == <<FRAME_DELIMITER>> \o fpput(0) \o fpput(enc.length)
         prefixLength == Len(prefix)
         frameStart == enc.dataStart - prefixLength
         first == IF frameStart < 0 THEN 0 ELSE frameStart
         written == prefix \o SubSeq(enc.buf, prefixLength + 1, FrameBufferSize)
         moved == SubSeq(written, 1, first)
                    \o SubSeq(prefix, first - frameStart + 1, prefixLength)
                    \o SubSeq(written, frameStart + prefixLength + 1,
                              FrameBufferSize)
         last == Min(frameStart + prefixLength + enc.finalLength,
                     FrameBufferSize)
     IN  enc' = [enc EXCEPT
                   !.stage = "sent", !.buf = moved, !.fp = prefixLength,
                   !.frameStart = frameStart,
                   !.outside = @ \/ frameStart < 0,
                   !.sent = SubSeq(moved, first + 1, last)]
  /\ UNCHANGED <<xbs, pc, op, at, wire, inq, tgt, g, dec, pgm, stats>>

EncoderSpec == EncoderInit /\ [][PutPayload \/ PutPrefix]_vars

(***************************************************************************)
(* Properties.                                                             *)
(***************************************************************************)

\* C1: stop-and-wait outbound.  At most one outSequence is written and not
\* seen acknowledged, and it is the current one; the first REQUEST of a chunk
\* is written, and xbeedev_send returns 0, only when no REQUEST written
\* before is still unacknowledged.
C1_StopAndWait ==
  /\ Cardinality(g.outstanding) <= 1
  /\ g.outstanding \subseteq {xbs.outSequence}
  /\ (pc = "send_write" /\ g.copies = 0 => g.outstanding = {})
  /\ (g.opName = "send" /\ g.done /\ g.rc = 0 => g.outstanding = {})

\* the second chunk of a send is in flight, the first one acknowledged
C1_Witness ==
  /\ pc = "send_poll"
  /\ op.sequence = 2
  /\ g.outstanding = {2}
  /\ tgt.inLast = 1

\* C2: exactly-once outbound delivery.  With a target that accepts only the
\* sequence following the last one it accepted and acknowledges every
\* REQUEST, whatever is lost, the bytes the target has accepted are a prefix
\* of the bytes the client has sent, and all of them once xbeedev_send has
\* returned 0.
C2_ExactlyOnce ==
  /\ IsPrefix(tgt.accepted, Stream(1, g.clientSent))
  /\ (g.opName = "send" /\ g.done /\ g.rc = 0
        => tgt.accepted = Stream(1, g.clientSent))

\* a two-chunk send has returned 0 after a poll that timed out
C2_Witness ==
  /\ g.opName = "send"
  /\ g.done
  /\ g.rc = 0
  /\ g.clientSent = XBEEBOOT_MAX_CHUNK + 1
  /\ tgt.events > 0
  /\ xbs.txSequence > 2

\* C3: in-order inbound delivery.  As long as the ring has not overrun, the
\* data of the accepted REQUEST(FRAME_REPLY) frames (since the last drain),
\* in the order of acceptance, is what the client's buffers have received
\* followed by what the ring holds; xbeedev_recv never writes more than
\* buflen bytes, and has written exactly buflen when it returns 0.
C3_InOrder ==
  /\ (~g.overrun => g.accepted = g.delivered \o RingContents(xbs))
  /\ g.got <= g.asked
  /\ (g.opName = "recv" /\ g.done /\ g.rc = 0 => g.got = g.asked)

\* a recv has returned 0 with bytes of the same frame left in the ring
C3_Witness ==
  /\ g.opName = "recv"
  /\ g.done
  /\ g.rc = 0
  /\ g.got = g.asked
  /\ g.delivered # << >>
  /\ RingCount(xbs) > 0
  /\ ~g.overrun

\* C4 (as amended): a REQUEST(FRAME_REPLY) from the target is accepted iff
\* its sequence follows inSequence and it carries at least one data byte.
\* On acceptance inSequence is its sequence and, unless the ring overruns,
\* sendPacket is called for ACK(sequence) in the same poll, before any
\* further read: the ACK is written unless the serial device's send fails.
\* On an overrun no ACK is written.  A frame that is not accepted leaves
\* inSequence, the ring and the caller's buffer as they were.
C4_AcceptRule ==
  g.evt.kind = "req" =>
    /\ g.evt.took <=> (g.evt.seq = g.evt.expect /\ g.evt.len >= 1)
    /\ g.evt.took => xbs.inSequence = g.evt.seq
    /\ g.evt.took /\ ~g.evt.overrun =>
         g.evt.ackSeq = g.evt.seq /\ (g.evt.wrote \/ g.evt.failed)
    /\ g.evt.took /\ g.evt.overrun => ~g.evt.wrote
    /\ ~g.evt.took => g.evt.same /\ xbs.inSequence = g.evt.last

\* a REQUEST has been accepted and acknowledged in the poll that read it
C4_Witness ==
  /\ g.evt.kind = "req"
  /\ g.evt.took
  /\ g.evt.wrote
  /\ xbs.inSequence = 2

\* C4 as stated: accepted iff the sequence follows inSequence, and then
\* ACK(sequence) is written before any further read (unless the serial
\* device's send fails).
C4_AsStated ==
  g.evt.kind = "req" =>
    /\ g.evt.took <=> g.evt.seq = g.evt.expect
    /\ g.evt.took => /\ xbs.inSequence = g.evt.seq
                     /\ g.evt.wrote \/ g.evt.failed
    /\ ~g.evt.took => g.evt.same

\* C5 (as amended): a REQUEST(FRAME_REPLY) whose sequence is not the
\* successor of inSequence is dropped by the poll that reads it: nothing is
\* delivered or stored and no ACK is written.  ACK(inSequence) is written
\* again only by xbeedev_send and xbeedev_recv, when their poll has failed
\* and inSequence is not 0, before they poll again: when such a poll times
\* out after a stale REQUEST was read, the next host step is that sendPacket.
C5_DuplicateAck ==
  /\ (g.evt.kind = "req" /\ g.evt.seq # g.evt.expect
        => ~g.evt.took /\ g.evt.same /\ g.evt.ackSeq = -1 /\ g.lastOut = << >>)
  /\ (g.dup = "due" => pc \in {"send_ack", "recv_ack"} /\ xbs.inSequence # 0)
  /\ (pc \in {"send_ack", "recv_ack"} => xbs.inSequence # 0)

\* a stale REQUEST was read and the poll of xbeedev_recv has timed out since
C5_Witness ==
  /\ g.dup = "due"
  /\ pc = "recv_ack"

\* C5 as stated: whatever operation polls, a stale REQUEST that was read
\* with inSequence not 0 is answered with ACK(inSequence) before the session
\* is closed.
C5_AsStated == pc = "closed" => g.dup = "none"

\* C6: retry budget.  At most XBEE_MAX_RETRIES REQUESTs are written for a
\* chunk, all with its outSequence, FIRMWARE_DELIVER and the same payload;
\* once XBEE_MAX_RETRIES polls have ended without the chunk's ACK, the last
\* ACK is written again and xbeedev_send returns an error with the transport
\* unusable and outSequence still that of the chunk.
C6_RetryBudget ==
  /\ g.copies <= XBEE_MAX_RETRIES
  /\ g.fails <= XBEE_MAX_RETRIES
  /\ g.copiesSame
  /\ (g.first # << >> =>
        g.first[1] = g.chunkSeq /\ g.first[2] = FIRMWARE_DELIVER)
  /\ (g.fails = XBEE_MAX_RETRIES =>
        \/ pc = "send_ack"
        \/ /\ pc \in {"idle", "at_poll", "closed"}
           /\ g.sendErr
           /\ xbs.transportUnusable
           /\ xbs.outSequence = g.chunkSeq)

\* the budget was spent on the first chunk of a two-chunk send
C6_Witness ==
  /\ g.fails = XBEE_MAX_RETRIES
  /\ g.copies = XBEE_MAX_RETRIES
  /\ g.sendErr
  /\ g.chunkSeq = 1
  /\ g.clientSent = XBEEBOOT_MAX_CHUNK + 1
  /\ tgt.accepted = << >>

C8_SendErrorLatch ==
  /\ [](g.sendErr => xbs.transportUnusable)
  /\ [][xbs.transportUnusable => xbs'.transportUnusable]_vars

\* xbeedev_send has failed on a write and another operation has run since
C8_Witness ==
  /\ g.sendErr
  /\ xbs.transportUnusable
  /\ g.opName # "send"
  /\ g.done
  /\ g.fails < XBEE_MAX_RETRIES

C10_AsStated == ~g.ioAfterLatch

\* is frame the Create Source Route frame, frame id 0, of this route
IsRouteFrame(frame, hops, route) ==
  /\ frame.apiType = API_CREATE_SOURCE_ROUTE
  /\ frame.txSequence = 0
  /\ frame.prePayload2 = hops
  /\ frame.data = route

\* C11: source-route precedence.  When the route cache has changed since the
\* last 0x10 or 0x17 frame was written, the next 0x10 or 0x17 frame written
\* comes right after a Create Source Route frame with frame id 0 that carries
\* the cached hop count and addresses, in order.
C11_RoutePrecedence ==
  [][\A i \in 1..Len(g'.lastOut) :
       g.routeDue # << >> /\ Addressed(g'.lastOut[i]) =>
         LET before == IF i > 1 THEN <<g'.lastOut[i - 1]>> ELSE g.lastRoute
         IN  /\ before # << >>
             /\ IsRouteFrame(before[1], g.routeDue[1].hops,
                              g.routeDue[1].route)]_vars

\* a one-hop route has been reported and the REQUEST of xbeedev_send has
\* been written behind its Create Source Route frame
C11_Witness ==
  /\ Len(g.lastOut) = 2
  /\ IsRouteFrame(g.lastOut[1], 1, <<TargetAddr16>>)
  /\ g.lastOut[2].apiType = API_TRANSMIT_REQUEST
  /\ g.lastOut[2].packetType = XBEEBOOT_PACKET_TYPE_REQUEST

\* C12: Create Source Route is emitted once per change.  A step that writes
\* writes at most one 0x21 frame, only with sourceRouteChanged set, of the
\* cached route, as its first frame, and clears the flag; a 0x10 or 0x17
\* frame written with the flag set comes behind one; a step that writes a
\* 0x08 frame writes no 0x21 frame and leaves the flag as it was; and the
\* flag is set only by a step that changes the cached route.
C12_OncePerChange ==
  [][/\ xbs' # xbs =>
          LET out == g'.lastOut
          IN  /\ \A i \in 1..Len(out) :
                    out[i].apiType = API_CREATE_SOURCE_ROUTE =>
                      /\ i = 1
                      /\ xbs.sourceRouteChanged
                      /\ ~xbs'.sourceRouteChanged
                      /\ IsRouteFrame(out[i], xbs.sourceRouteHops,
                                      xbs.sourceRoute)
              /\ \A i \in 1..Len(out) :
                    Addressed(out[i]) /\ xbs.sourceRouteChanged =>
                      i = 2 /\ out[1].apiType = API_CREATE_SOURCE_ROUTE
              /\ \A i \in 1..Len(out) :
                    out[i].apiType = API_LOCAL_AT =>
                      /\ \A j \in 1..Len(out) :
                            out[j].apiType # API_CREATE_SOURCE_ROUTE
                      /\ xbs'.sourceRouteChanged = xbs.sourceRouteChanged
     /\ xbs'.sourceRouteChanged /\ ~xbs.sourceRouteChanged =>
          \/ xbs'.sourceRouteHops # xbs.sourceRouteHops
          \/ xbs'.sourceRoute # xbs.sourceRoute]_vars

\* AT AR=0 has been written with a changed route pending: no Create Source
\* Route frame went with it and the flag is still set
C12_Witness ==
  /\ Len(g.lastOut) = 1
  /\ g.lastOut[1].apiType = API_LOCAL_AT
  /\ xbs.sourceRouteChanged
  /\ pc = "at_poll"

\* C13: route cache update rule.  When xbeedev_poll takes a Route Record
\* Indicator that is from the target, carries the addresses its hop count h
\* announces, has h <= 40 and differs from the cache in h or in the
\* addresses, the cache becomes that h and those addresses and
\* sourceRouteChanged is set; every other Route Record Indicator leaves
\* sourceRouteHops, sourceRoute and sourceRouteChanged as they were.
C13_RouteCacheUpdate ==
  [][Len(inq') < Len(inq) /\ Head(inq).frameType = API_ROUTE_RECORD =>
       LET f == Head(inq)
           table == SubSeq(f.route, 1, f.hops)
       IN  IF /\ f.from64
              /\ Len(f.route) >= f.hops
              /\ f.hops <= XBEE_MAX_INTERMEDIATE_HOPS
              /\ (f.hops # xbs.sourceRouteHops \/ table # xbs.sourceRoute)
           THEN /\ xbs'.sourceRouteHops = f.hops
                /\ xbs'.sourceRoute = table
                /\ xbs'.sourceRouteChanged
           ELSE /\ xbs'.sourceRouteHops = xbs.sourceRouteHops
                /\ xbs'.sourceRoute = xbs.sourceRoute
                /\ xbs'.sourceRouteChanged = xbs.sourceRouteChanged]_vars

\* a route of 40 hops has been cached and is to be announced
C13_Witness ==
  /\ xbs.sourceRouteHops = XBEE_MAX_INTERMEDIATE_HOPS
  /\ xbs.sourceRoute = Stream(1, XBEE_MAX_INTERMEDIATE_HOPS)
  /\ xbs.sourceRouteChanged

\* a REQUEST(FIRMWARE_DELIVER) in a Transmit Request frame
IsDeliver(frame) ==
  /\ frame.apiType = API_TRANSMIT_REQUEST
  /\ frame.packetType = XBEEBOOT_PACKET_TYPE_REQUEST
  /\ frame.appType = FIRMWARE_DELIVER

\* C14: chunk-size bound.  Every REQUEST(FIRMWARE_DELIVER) written in a 0x10
\* frame carries at most 54 - (2h+2) bytes when h, the cached hop count at
\* the time xbeedev_send cut the chunk, has h > 0 and 2h+2 < 54, and at most
\* 54 bytes otherwise.
C14_ChunkBound ==
  [][xbs' # xbs =>
       \A i \in 1..Len(g'.lastOut) :
         IsDeliver(g'.lastOut[i]) =>
           Len(g'.lastOut[i].data) <=
             IF g.chunkHops > 0 /\ 2 * g.chunkHops + 2 < XBEEBOOT_MAX_CHUNK
             THEN XBEEBOOT_MAX_CHUNK - (2 * g.chunkHops + 2)
             ELSE XBEEBOOT_MAX_CHUNK]_vars

\* with a route of one hop cached, a REQUEST of 50 bytes has been written
C14_Witness ==
  /\ xbs.sourceRouteHops = 1
  /\ g.chunkHops = 1
  /\ g.lastOut # << >>
  /\ IsDeliver(g.lastOut[Len(g.lastOut)])
  /\ Len(g.lastOut[Len(g.lastOut)].data) = XBEEBOOT_MAX_CHUNK - 4

\* C14 as stated: the bound is 54 - max(0, 2h+2) for the hop count h in
\* 0..40 cached when the frame is written
C14_AsStated ==
  [][xbs' # xbs =>
       \A i \in 1..Len(g'.lastOut) :
         IsDeliver(g'.lastOut[i])
         /\ xbs.sourceRouteHops \in 0..XBEE_MAX_INTERMEDIATE_HOPS =>
           Len(g'.lastOut[i].data) <=
             XBEEBOOT_MAX_CHUNK - (2 * xbs.sourceRouteHops + 2)]_vars

\* C15: chunking rule.  The chunks xbeedev_send cuts from buf are
\* consecutive, each of min(remaining, M) bytes, where M = 54 - (2h+2) when
\* the hop count h cached then has h > 0 and 2h+2 < 54, and M = 54 otherwise;
\* their outSequence values are consecutive; every REQUEST written carries
\* the current chunk; a chunk is cut only when no earlier one is
\* unacknowledged; and a send that returns 0 has cut the whole of buf: 100
\* bytes with no route make two chunks, of 54 and then 46 bytes.
C15_ChunkingRule ==
  /\ \A k \in 1..Len(g.chunks) :
        LET c == g.chunks[k]
            M == IF c.hops > 0 /\ 2 * c.hops + 2 < XBEEBOOT_MAX_CHUNK
                 THEN XBEEBOOT_MAX_CHUNK - (2 * c.hops + 2)
                 ELSE XBEEBOOT_MAX_CHUNK
        IN  /\ c.off = IF k = 1 THEN 0
                       ELSE g.chunks[k - 1].off + Len(g.chunks[k - 1].data)
            /\ c.data = SubSeq(g.sendBuf, c.off + 1,
                               c.off + Min(Len(g.sendBuf) - c.off, M))
            /\ k > 1 => c.seq = NextSequence(g.chunks[k - 1].seq)
  /\ g.opName = "send" /\ ~g.done /\ g.first # << >> =>
        /\ g.first = <<g.chunks[Len(g.chunks)].seq, FIRMWARE_DELIVER,
                       g.chunks[Len(g.chunks)].data>>
        /\ g.copiesSame
  /\ pc = "send_write" /\ g.copies = 0 => g.outstanding = {}
  /\ g.opName = "send" /\ g.done /\ g.rc = 0 /\ g.chunks # << >> =>
        /\ g.chunks[Len(g.chunks)].off + Len(g.chunks[Len(g.chunks)].data)
             = Len(g.sendBuf)
        /\ Len(g.sendBuf) = 100 /\ (\A k \in 1..Len(g.chunks) :
                                       g.chunks[k].hops = -1) =>
              /\ Len(g.chunks) = 2
              /\ Len(g.chunks[1].data) = XBEEBOOT_MAX_CHUNK
              /\ Len(g.chunks[2].data) = 100 - XBEEBOOT_MAX_CHUNK

\* 100 bytes have been sent with no route cached, in two chunks
C15_Witness ==
  /\ g.opName = "send"
  /\ g.done
  /\ g.rc = 0
  /\ Len(g.sendBuf) = 100
  /\ xbs.sourceRouteHops = -1
  /\ ~xbs.directMode
  /\ Len(g.chunks) = 2

\* C16: sequence counters.  A step leaves txSequence, outSequence and
\* inSequence as they are or moves them to their successor, v + 1 with 1
\* after 255, so a counter that has left 0 stays in 1..255; the frame id of
\* every 0x08, 0x10, 0x17 and 0x90 frame written and the sequence of every
\* REQUEST and ACK written are in 1..255; and the frame id of such a frame
\* differs from that of the one written before it.
C16_SequenceCounters ==
  [][/\ \A c \in {"txSequence", "outSequence", "inSequence"} :
          /\ \/ xbs'[c] = xbs[c]
             \/ xbs'[c] = IF xbs[c] = 255 THEN 1 ELSE xbs[c] + 1
          /\ xbs[c] \in 1..255 => xbs'[c] \in 1..255
     /\ xbs' # xbs =>
          \A i \in 1..Len(g'.lastOut) :
            LET f == g'.lastOut[i]
            IN  /\ f.apiType \in {API_LOCAL_AT, API_TRANSMIT_REQUEST,
                                   API_REMOTE_AT, API_RECEIVE_PACKET} =>
                      /\ f.txSequence \in 1..255
                      /\ f.txSequence # g.lastId
                      /\ f.txSequence = xbs'.txSequence
                /\ f.packetType \in {XBEEBOOT_PACKET_TYPE_REQUEST,
                                      XBEEBOOT_PACKET_TYPE_ACK} =>
                      f.sequence \in 1..255]_vars

\* all three counters have wrapped around to 1
C16_Witness ==
  /\ xbs.txSequence = 1
  /\ xbs.outSequence = 1
  /\ xbs.inSequence = 1
  /\ g.lastId = 1

\* C17 as stated: with a target that obeys stop-and-wait the input ring
\* never overruns, whatever the client calls.
C17_AsStated == ~g.overrun

\* C18: escape round-trip.  For every payload that fits the encoder's
\* frame[] when escaped, the bytes the encoder writes hold 0x7E once, as
\* their first byte, and the decoder, having read them, has dispatched one
\* frame, whose payload is the one encoded.
C18_RoundTrip ==
  dec.rx = << >> /\ dec.junk = << >> /\ dec.hit = << >> =>
    LET fits == FRAME_DATA_OFFSET + Len(PutAll(dec.payload))
                  + Len(fpput(Checksum(dec.payload))) <= FrameBufferSize
        bytes == Encode(dec.payload)
    IN  fits => /\ dec.dispatched = <<dec.payload>>
                /\ \A i \in 1..Len(bytes) :
                      bytes[i] = FRAME_DELIMITER <=> i = 1

\* the longest payload that fits, 250 bytes, has made the round trip
C18_Witness ==
  /\ dec.rx = << >>
  /\ dec.junk = << >>
  /\ dec.hit = << >>
  /\ Len(dec.payload) = FrameBufferSize - FRAME_DATA_OFFSET - 1
  /\ dec.dispatched = <<dec.payload>>

\* C18 as stated: every payload of at most 253 bytes makes the round trip
C18_AsStated ==
  dec.rx = << >> /\ dec.junk = << >> /\ dec.hit = << >>
    /\ Len(dec.payload) <= 253
    => dec.dispatched = <<dec.payload>>

\* C19: corruption detection.  The payload bytes of a frame the encoder
\* writes and its checksum add up to 0xFF in an unsigned char; and when one
\* byte of the payload or the checksum on the wire, not an escape byte 0x7D,
\* is replaced by a different value other than 0x7E and 0x7D, the decoder
\* dispatches nothing.
C19_Detection ==
  /\ dec.rx = << >> /\ dec.hit = << >> /\ dec.dispatched = <<dec.payload>> =>
        LET bytes == Encode(dec.payload)
            last == IF bytes[Len(bytes) - 1] = FRAME_ESCAPE
                    THEN Xor20(bytes[Len(bytes)]) ELSE bytes[Len(bytes)]
        IN  (SumBytes(dec.payload) + last) % 256 = 255
  /\ dec.hit # << >> =>
        LET bytes == Encode(dec.payload)
            p == dec.hit[1]
            v == dec.hit[2]
        IN  /\ p > Len(EncodePrefix(dec.payload))
            /\ bytes[p] # FRAME_ESCAPE
            /\ v \notin {FRAME_DELIMITER, FRAME_ESCAPE}
            => dec.dispatched = << >>

\* the first payload byte of a frame was replaced and the frame has been
\* read to its end and dropped
C19_Witness ==
  /\ dec.hit # << >>
  /\ dec.hit[1] = Len(EncodePrefix(dec.payload)) + 1
  /\ dec.hit[2] \notin {FRAME_DELIMITER, FRAME_ESCAPE}
  /\ Encode(dec.payload)[dec.hit[1]] # FRAME_ESCAPE
  /\ dec.rx = << >>
  /\ dec.state = "before_frame"
  /\ dec.restarts = 0
  /\ dec.dispatched = << >>

\* C19 as stated: whichever byte of the length, the payload or the checksum
\* is replaced, the decoder dispatches nothing
C19_AsStated == dec.hit # << >> => dec.dispatched = << >>

\* C20: decoder resynchronisation.  Whatever the decoder has read, a 0x7E
\* puts it at the start of a frame: state in_frame, index 0, no escape
\* pending, frameSize 2; and once the bytes of a frame the encoder wrote
\* have been read, the frame has been dispatched, whatever bytes came before
\* its delimiter.
C20_Resync ==
  [][dec' # dec =>
       /\ Head(dec.rx) = FRAME_DELIMITER =>
             /\ dec'.state = "in_frame"
             /\ dec'.index = 0
             /\ ~dec'.escaped
             /\ dec'.frameSize = 2
             /\ dec'.frame = << >>
       /\ /\ dec'.rx = << >>
          /\ dec'.hit = << >>
          /\ FRAME_DATA_OFFSET + Len(EncodeBody(dec.payload)) <= FrameBufferSize
          => /\ dec'.dispatched # << >>
             /\ dec'.dispatched[Len(dec'.dispatched)] = dec.payload]_vars

\* a frame has been dispatched that came behind a frame cut off after an
\* escape byte
C20_Witness ==
  /\ dec.junk = <<FRAME_DELIMITER, 0, 1, FRAME_ESCAPE>>
  /\ dec.rx = << >>
  /\ dec.restarts = 1
  /\ dec.payload = <<FRAME_ESCAPE>>
  /\ dec.dispatched = <<dec.payload>>

\* C21: OTA open ordering.  In OTA mode xbee_open writes AT AP=2 first,
\* AT AR=0 only after localAT has returned success for AP, Remote AT D6=0 to
\* the target's address only after AR has succeeded, D<pin>=4 only after D6
\* has succeeded, D<pin>=5 after the call for D<pin>=4 has returned, whatever
\* it returned, and STK_GET_SYNC in a 0x10 REQUEST after the call for
\* D<pin>=5 has returned, whatever it returned; when AP, AR or D6 fails,
\* open has returned an error, the serial device is closed and nothing is
\* written any more.
C21_OpenOrdering ==
  [][/\ g' # g =>
          \A i \in 1..Len(g'.lastOut) :
            LET f == g'.lastOut[i]
                pin == 48 + xbs'.xbeeResetPin
                last == g.atLast
            IN  /\ f.apiType = API_LOCAL_AT /\ f.data = <<65, 80, 2>> =>
                     last.cmd = << >>
                /\ f.apiType = API_LOCAL_AT /\ f.data = <<65, 82, 0>> =>
                     last.cmd = <<65, 80, 2>> /\ last.done /\ last.rc >= 0
                /\ f.apiType = API_REMOTE_AT /\ f.data = <<68, 54, 0>> =>
                     /\ last.cmd = <<65, 82, 0>> /\ last.done /\ last.rc >= 0
                     /\ f.addr16 = xbs.addr16
                /\ f.apiType = API_REMOTE_AT /\ f.data = <<68, pin, 4>> =>
                     last.cmd = <<68, 54, 0>> /\ last.done /\ last.rc >= 0
                /\ f.apiType = API_REMOTE_AT /\ f.data = <<68, pin, 5>> =>
                     last.cmd = <<68, pin, 4>> /\ last.done
                /\ (/\ f.apiType = API_TRANSMIT_REQUEST
                    /\ f.packetType = XBEEBOOT_PACKET_TYPE_REQUEST
                    /\ f.data = <<Cmnd_STK_GET_SYNC, Sync_CRC_EOP>>) =>
                     /\ g'.opName = "send"
                     /\ g'.sendBuf = <<Cmnd_STK_GET_SYNC, Sync_CRC_EOP>>
     /\ (/\ ~xbs.directMode
         /\ g'.ops = g.ops + 1
         /\ g'.opName = "send"
         /\ g'.sendBuf = <<Cmnd_STK_GET_SYNC, Sync_CRC_EOP>>) =>
          /\ g.atLast.cmd = <<68, 48 + xbs.xbeeResetPin, 5>>
          /\ g.atLast.done
     /\ g'.opName = "open" /\ g'.atLast.done /\ g'.atLast.rc < 0 =>
          g'.done /\ g'.rc < 0 /\ pc' = "closed"
     /\ pc = "closed" => g' = g]_vars

\* STK_GET_SYNC has been written in a 0x10 REQUEST, in the third operation
\* after xbeedev_open, the two halves of the reset pulse, has returned
C21_Witness ==
  /\ \E i \in 1..Len(g.lastOut) :
       /\ g.lastOut[i].apiType = API_TRANSMIT_REQUEST
       /\ g.lastOut[i].data = <<Cmnd_STK_GET_SYNC, Sync_CRC_EOP>>
  /\ g.ops = 3
  /\ pc = "send_poll"

\* C21 as stated: the second half of the reset pulse is written, and
\* xbee_getsync is called, only after the step before has succeeded
C21_AsStated ==
  [][\/ /\ g' # g
        /\ \E i \in 1..Len(g'.lastOut) :
              /\ g'.lastOut[i].apiType = API_REMOTE_AT
              /\ g'.lastOut[i].data[3] = 5
     \/ /\ ~xbs.directMode
        /\ g'.ops = g.ops + 1
        /\ g'.opName = "send"
     => g.atLast.rc >= 0]_vars
C24_RemoteATLayout ==
  [][g' # g =>
       \A i \in 1..Len(g'.lastOut) :
         LET f == g'.lastOut[i]
         IN  f.apiType = API_REMOTE_AT =>
               /\ xbs'.txSequence = NextSequence(xbs.txSequence)
               /\ Len(f.data) \in {2, 3}
               /\ g'.payloads[i] =
                    <<23, xbs'.txSequence>> \o TargetAddr64
                    \o <<xbs.addr16 \div 256, xbs.addr16 % 256>>
                    \o <<2>> \o f.data]_vars

\* AT D6=0 has been written by xbeedev_open, the third frame of the
\* session, to the target whose 16-bit address is not known yet
C24_Witness ==
  /\ pc = "at_poll"
  /\ at.ret = "open_D6"
  /\ g.payloads = <<<<23, 3, 0, 19, 162, 0, 18, 52, 86, 120, 255, 254,
                      2, 68, 54, 0>>>>

\* C24 as stated: a broadcast radius of 0 goes before the options
C24_AsStated ==
  [][g' # g =>
       \A i \in 1..Len(g'.lastOut) :
         LET f == g'.lastOut[i]
         IN  f.apiType = API_REMOTE_AT =>
               g'.payloads[i] =
                 <<23, xbs'.txSequence>> \o TargetAddr64
                 \o <<xbs.addr16 \div 256, xbs.addr16 % 256>>
                 \o <<0, 2>> \o f.data]_vars
\* C25: Remote AT result mapping.  sendAT makes at most 30 polls.  When a
\* poll of it reads a 0x97 response that carries its frame id, sendAT
\* returns 0 if the status is 0 and -512 + status, a value in [-512, -256],
\* otherwise.  When a poll of it times out, sendAT polls again if fewer than
\* 30 polls have been made and returns -1 if that was the 30th.
C25_RemoteATResult ==
  [][pc = "at_poll" /\ ~at.local =>
       /\ at.retries < 30
       /\ <<xbs, pc, op, at, g>>' # <<xbs, pc, op, at, g>> =>
            IF inq' # inq
            THEN (/\ Head(inq).frameType = API_REMOTE_AT_RESPONSE
                  /\ Head(inq).txSequence = at.sequence) =>
                   LET status == Head(inq).resultCode
                   IN  /\ g'.atLast.done
                       /\ g'.atLast.rc = IF status = 0 THEN 0
                                         ELSE -512 + status
                       /\ g'.atLast.rc >= -512 /\ g'.atLast.rc <= 0
                       /\ status # 0 => g'.atLast.rc <= -256
            ELSE IF at.retries + 1 < 30
                 THEN /\ pc' = "at_poll"
                      /\ at' = [at EXCEPT !.retries = @ + 1]
                      /\ ~g'.atLast.done
                 ELSE g'.atLast.done /\ g'.atLast.rc = -1]_vars

\* sendAT of AT D6=0 has returned -508: its response bore the status 4
C25_Witness ==
  /\ g.atLast = [cmd |-> <<68, 54, 0>>, done |-> TRUE, rc |-> -508]
  /\ pc = "closed"
\* C26: local AT bounded wait.  localAT writes at most one frame, a 0x08
\* frame with its frame id, and makes at most 5 polls.  A poll of it that
\* reads a 0x88 response carrying its frame id makes localAT return 0 at
\* once; a poll that reads any other frame that is not a response with its
\* frame id and does not overrun the ring goes on reading, and is not
\* counted; a poll that times out is counted, and localAT polls again if
\* fewer than 5 polls have ended and returns -1 if that was the 5th.
C26_LocalATWait ==
  [][/\ pc' = "at_poll" /\ at'.local /\ pc # "at_poll" =>
          /\ Len(g'.lastOut) <= 1
          /\ \A i \in 1..Len(g'.lastOut) :
                /\ g'.lastOut[i].apiType = API_LOCAL_AT
                /\ g'.lastOut[i].txSequence = at'.sequence
     /\ pc = "at_poll" /\ at.local =>
          /\ at.retries < 5
          /\ <<xbs, pc, op, at, g>>' # <<xbs, pc, op, at, g>> =>
               IF inq' # inq
               THEN IF Head(inq).txSequence = at.sequence
                       /\ Head(inq).frameType \in {API_LOCAL_AT_RESPONSE,
                                                    API_REMOTE_AT_RESPONSE}
                    THEN Head(inq).frameType = API_LOCAL_AT_RESPONSE =>
                           g'.atLast.done /\ g'.atLast.rc = 0
                    ELSE g'.overrun = g.overrun =>
                           pc' = "at_poll" /\ at' = at /\ ~g'.atLast.done
               ELSE IF at.retries + 1 < 5
                    THEN /\ pc' = "at_poll"
                         /\ at' = [at EXCEPT !.retries = @ + 1]
                         /\ ~g'.atLast.done
                    ELSE g'.atLast.done /\ g'.atLast.rc = -1]_vars

\* the first poll of localAT for AT AP=2 has read a Route Record Indicator
\* and goes on reading
C26_Witness ==
  /\ pc = "at_poll"
  /\ at.local
  /\ at.ret = "open_AP"
  /\ at.retries = 0
  /\ xbs.sourceRouteHops = 1

\* C26 as stated: a poll of localAT returns after any single inbound frame
C26_AsStated ==
  [][/\ pc = "at_poll"
     /\ at.local
     /\ <<xbs, pc, op, at, g>>' # <<xbs, pc, op, at, g>>
     /\ inq' # inq
     => pc' # "at_poll" \/ at'.retries = at.retries + 1]_vars
\* C27: direct-mode AT no-ops.  In a direct-mode session no 0x08 and no
\* 0x17 frame is ever written and no localAT or sendAT ever polls;
\* xbeedev_open, xbeedev_set_dtr_rts and xbee_close neither write to nor
\* read from the frame stream and leave txSequence as it was, and open and
\* close return 0.
C27_DirectATNoOps ==
  [][xbs.directMode =>
       /\ \A i \in 1..Len(g'.lastOut) :
             g'.lastOut[i].apiType \notin {API_LOCAL_AT, API_REMOTE_AT}
       /\ pc' # "at_poll"
       /\ g' # g /\ g'.opName \in {"open", "set_dtr_rts", "close"} =>
            /\ xbs'.txSequence = xbs.txSequence
            /\ wire' = wire /\ inq' = inq
            /\ g'.lastOut = << >>
            /\ ~g'.opIo
            /\ g'.done
            /\ g'.opName # "set_dtr_rts" => g'.rc = 0]_vars

\* a direct-mode session has been closed after frames were written in it
C27_Witness ==
  /\ xbs.directMode
  /\ pc = "closed"
  /\ g.opName = "close"
  /\ xbs.txSequence > 0
  /\ ~g.opIo
\* C28 as stated: direct-mode source routing is inert.  In a direct-mode
\* session, whatever frames come in, sourceRouteHops stays -1,
\* sourceRouteChanged stays false, no 0x21 frame is written, and the chunk
\* budget of xbeedev_send is 54.
C28_AsStated ==
  xbs.directMode =>
    /\ xbs.sourceRouteHops = -1
    /\ ~xbs.sourceRouteChanged
    /\ \A i \in 1..Len(g.lastOut) :
          g.lastOut[i].apiType # API_CREATE_SOURCE_ROUTE
    /\ IF xbs.sourceRouteHops > 0 /\ xbs.sourceRouteHops * 2 + 2 < 54
       THEN FALSE ELSE TRUE
\* C29 as stated: drain discards buffered input.  xbeedev_drain called on an
\* unusable transport returns -1 without any I/O; otherwise it empties the
\* input ring, polls, and returns, with 0, only when a poll has ended with
\* no frame within the serial timeout.
C29_AsStated ==
  [][/\ g'.ops = g.ops + 1 /\ g'.opName = "drain" =>
          IF xbs.transportUnusable
          THEN /\ g'.done /\ g'.rc = -1 /\ ~g'.opIo
               /\ xbs' = xbs /\ wire' = wire /\ inq' = inq
          ELSE pc' = "drain_poll" /\ RingCount(xbs') = 0
     /\ pc = "drain_poll" /\ pc' # "drain_poll" =>
          g'.done /\ g'.rc = 0 /\ inq' = inq]_vars
(***************************************************************************)
(* xbeedev_open and xbeedev_recv on a mesh that hands the host Receive     *)
(* Packets and Route Record Indicators of the target under two 16-bit      *)
(* addresses, a Receive Packet of the target without data, frames of       *)
(* another XBee, and a Local AT response that bears the frame id of the    *)
(* third AT frame of the session, AT D6.                                   *)
(***************************************************************************)
AddressFrames ==
  LET request == <<XBEEBOOT_PACKET_TYPE_REQUEST, 1, FRAME_REPLY, 7>>
  IN  {InFrame(API_RECEIVE_PACKET, 0, 0, from64, src16, pkt, 0, << >>) :
         from64 \in BOOLEAN, src16 \in {TargetAddr16, MovedAddr16},
         pkt \in {request, << >>}}
      \cup {[RecordFrame(<<1>>) EXCEPT !.from64 = from64, !.src16 = src16,
                                      !.hops = hops] :
              from64 \in BOOLEAN, src16 \in {TargetAddr16, MovedAddr16},
              hops \in {1, 2}}
      \cup {InFrame(API_LOCAL_AT_RESPONSE, 3, 0, FALSE, 0, << >>, 0, << >>)}

AddressNext ==
  \/ Open
  \/ OpenAR
  \/ OpenD6
  \/ \E len \in RecvLens : ClientRecv(len)
  \/ RecvAck
  \/ PollFrame
  \/ PollTimeout
  \/ Deliver
  \/ \E f \in AddressFrames : MeshFrame(f)

AddressSpec == Init /\ [][AddressNext]_vars

\* C30 (as amended): the 64-bit part of the target address never changes.
\* The 16-bit part is FF FE until xbeedev_open is called; a poll that reads
\* a 0x90 frame carrying at least one data byte, or a 0xA1 frame, whose
\* 64-bit source is the target leaves the 16-bit part equal to that frame's
\* 16-bit source, and no other step changes it.  A poll that reads a 0x90
\* or 0xA1 frame of another 64-bit source changes nothing of the session
\* and writes no frame.
C30_AddressTracking ==
  /\ [](pc = "open" => xbs.addr16 = ADDR16_UNKNOWN)
  /\ [][/\ xbs'.addr64 = xbs.addr64
        /\ IF Polling /\ inq # << >> /\ inq' = Tail(inq)
           THEN LET f == Head(inq)
                IN  IF f.frameType \in {API_RECEIVE_PACKET, API_ROUTE_RECORD}
                    THEN IF f.from64
                         THEN IF \/ f.frameType = API_ROUTE_RECORD
                                 \/ Len(f.pkt) > 0
                              THEN xbs'.addr16 = f.src16
                              ELSE xbs'.addr16 = xbs.addr16
                         ELSE /\ xbs' = xbs
                              /\ wire' = wire
                              /\ <<pc, op, at>>' = <<pc, op, at>>
                    ELSE xbs'.addr16 = xbs.addr16
           ELSE xbs'.addr16 = xbs.addr16]_vars

\* the target's 16-bit address was recorded, and a later frame of the
\* target under another 16-bit address has replaced it
C30_Witness ==
  /\ xbs.addr16 = MovedAddr16
  /\ g.polled
  /\ tgt.events = 2
  /\ xbs.inSequence = 1
  /\ xbs.sourceRouteHops = 1

\* C30 (as stated): the 16-bit part equals the 16-bit source of the most
\* recent 0x90 or 0xA1 frame read whose 64-bit source is the target.
C30_AsStated ==
  [][Polling /\ inq # << >> /\ inq' = Tail(inq) =>
       LET f == Head(inq)
       IN  (f.frameType \in {API_RECEIVE_PACKET, API_ROUTE_RECORD} /\ f.from64)
             => xbs'.addr16 = f.src16]_vars

C32_ResetPinValidation ==
  pgm.stage = "parsed" =>
    /\ pgm.extparms = << >> => pgm.rc = 0 /\ pgm.flag = XBEE_DEFAULT_RESET_PIN
    /\ (\E k \in 1..Len(pgm.extparms) :
          \/ Len(pgm.extparms[k]) < Len(ResetPinKey)
          \/ SubSeq(pgm.extparms[k], 1, Len(ResetPinKey)) # ResetPinKey)
         => pgm.rc = -1
    /\ (/\ Len(pgm.extparms) = 1
        /\ Len(pgm.extparms[1]) >= Len(ResetPinKey)
        /\ SubSeq(pgm.extparms[1], 1, Len(ResetPinKey)) = ResetPinKey) =>
         LET v == Drop(pgm.extparms[1], Len(ResetPinKey))
             neg == v # << >> /\ v[1] = 45
             ds == IF neg THEN Tail(v) ELSE v
             numeral == /\ ds # << >>
                        /\ \A i \in 1..Len(ds) : ds[i] \in 48..57
                        /\ Len(ds) > 1 => ds[1] # 48
             mag[k \in 0..Len(ds)] ==
               IF k = 0 THEN 0 ELSE 10 * mag[k - 1] + ds[k] - 48
             N == IF neg THEN 0 - mag[Len(ds)] ELSE mag[Len(ds)]
         IN  numeral =>
               IF N \in 1..7
               THEN pgm.rc = 0 /\ pgm.flag = N
               ELSE pgm.rc = -1 /\ pgm.flag = XBEE_DEFAULT_RESET_PIN

\* xbeeresetpin=7 has been accepted
C32_Witness ==
  /\ pgm.stage = "parsed"
  /\ pgm.extparms = <<ResetPinKey \o <<55>>>>
  /\ pgm.rc = 0
  /\ pgm.flag = 7

\* C32 (as stated): N = 7 is rejected as well, and N in 1..6 is accepted.
C32_AsStated ==
  pgm.stage = "parsed" =>
    /\ pgm.extparms = << >> => pgm.rc = 0 /\ pgm.flag = XBEE_DEFAULT_RESET_PIN
    /\ (\E k \in 1..Len(pgm.extparms) :
          \/ Len(pgm.extparms[k]) < Len(ResetPinKey)
          \/ SubSeq(pgm.extparms[k], 1, Len(ResetPinKey)) # ResetPinKey)
         => pgm.rc = -1
    /\ (/\ Len(pgm.extparms) = 1
        /\ Len(pgm.extparms[1]) >= Len(ResetPinKey)
        /\ SubSeq(pgm.extparms[1], 1, Len(ResetPinKey)) = ResetPinKey) =>
         LET v == Drop(pgm.extparms[1], Len(ResetPinKey))
             neg == v # << >> /\ v[1] = 45
             ds == IF neg THEN Tail(v) ELSE v
             numeral == /\ ds # << >>
                        /\ \A i \in 1..Len(ds) : ds[i] \in 48..57
                        /\ Len(ds) > 1 => ds[1] # 48
             mag[k \in 0..Len(ds)] ==
               IF k = 0 THEN 0 ELSE 10 * mag[k - 1] + ds[k] - 48
             N == IF neg THEN 0 - mag[Len(ds)] ELSE mag[Len(ds)]
         IN  numeral =>
               IF N \in 1..6
               THEN pgm.rc = 0 /\ pgm.flag = N
               ELSE pgm.rc = -1 /\ pgm.flag = XBEE_DEFAULT_RESET_PIN

\* C33: xbeedev_open accepts the port string iff it holds an '@' and what
\* stands before the first '@' is empty or exactly 16 hexadecimal digits of
\* either case.  A string it does not accept makes it return -1 with the
\* serial device unopened and nothing read or written.  An accepted string
\* leaves the 16-bit address FF FE and the 64-bit address all zeros in
\* direct mode (nothing before the '@'), the digits two a byte, the high
\* one first, otherwise.
C33_PortParsing ==
  pgm.stage \in {"syntax", "address", "session"} =>
    LET port == pgm.port
        ats == {i \in 1..Len(port) : port[i] = 64}
        part == IF ats = {} THEN port
                ELSE SubSeq(port, 1, (CHOOSE i \in ats : \A j \in ats : i <= j) - 1)
        digits == (48..57) \cup (65..70) \cup (97..102)
        hv(c) == IF c \in 48..57 THEN c - 48
                 ELSE IF c \in 65..70 THEN c - 55 ELSE c - 87
        good == /\ ats # {}
                /\ \/ part = << >>
                   \/ Len(part) = 16 /\ \A i \in 1..16 : part[i] \in digits
    IN  IF good
        THEN /\ pgm.rc = 0
             /\ pgm.directMode = (part = << >>)
             /\ xbs.directMode = pgm.directMode
             /\ xbs.addr16 = ADDR16_UNKNOWN
             /\ pgm.address[9] = 255 /\ pgm.address[10] = 254
             /\ xbs.addr64 = SubSeq(pgm.address, 1, 8)
             /\ \A i \in 1..8 :
                  pgm.address[i] = IF part = << >> THEN 0
                                   ELSE 16 * hv(part[2 * i - 1]) + hv(part[2 * i])
        ELSE /\ pgm.rc = -1
             /\ pc = "closed"
             /\ ~g.opIo
             /\ wire = << >>

\* the port 0013a2FF1234567e@/dev/t has been accepted
C33_Witness ==
  /\ pgm.stage = "session"
  /\ ~pgm.directMode
  /\ pgm.address = <<0, 19, 162, 255, 18, 52, 86, 126, 255, 254>>
  /\ pc = "open"

\* C34 (as stated): once XBeeBootSessionInit has run, each of the four
\* groups has a summary of 0 samples with minimum, maximum and sum 0, and
\* every send time is 0.
C34_AsStated ==
  stats # << >> /\ stats.stage = "open" /\ stats.events = 0 =>
    /\ \A group \in 0..(XBEE_STATS_GROUPS - 1) :
         stats.groupSummary[group] =
           [minimum |-> [tv_sec |-> 0, tv_usec |-> 0],
            maximum |-> [tv_sec |-> 0, tv_usec |-> 0],
            sum |-> [tv_sec |-> 0, tv_usec |-> 0],
            samples |-> 0]
    /\ \A c \in DOMAIN stats.sendTime :
         stats.sendTime[c] = [tv_sec |-> 0, tv_usec |-> 0]

\* C36 (as stated): when xbee_close summarises the groups, every group's
\* sample count is greater than 0.
C36_AsStated ==
  stats # << >> /\ stats.stage \in {"closed", "trapped"} =>
    \A group \in 0..(XBEE_STATS_GROUPS - 1) :
      stats.groupSummary[group].samples > 0

\* C35 (as stated): sendAT returns 0 only from a poll that has read a 0x97
\* response carrying its frame id with status 0.
C35_AsStated ==
  [][(/\ pc = "at_poll" /\ ~at.local
      /\ ~g.atLast.done /\ g'.atLast.done /\ g'.atLast.rc = 0) =>
       /\ inq # << >>
       /\ inq' = Tail(inq)
       /\ Head(inq).frameType = API_REMOTE_AT_RESPONSE
       /\ Head(inq).txSequence = at.sequence
       /\ Head(inq).resultCode = 0]_vars

\* C37: a Create Source Route frame that cannot be written blocks the frame
\* it was to precede.  A host step that leaves sourceRouteChanged set has
\* written no Create Source Route frame and no frame that bears the target's
\* address; sourceRouteChanged is cleared only by a step that writes a Create
\* Source Route frame first; a frame that bears the target's address is
\* written with sourceRouteChanged set only right after a Create Source
\* Route frame; and when sendAT is called with sourceRouteChanged set and
\* nothing is written, sendAPIRequest has returned the error to it.
C37_RouteFailureBlocks ==
  [][g' # g =>
       /\ xbs'.sourceRouteChanged =>
            \A i \in 1..Len(g'.lastOut) : g'.lastOut[i].apiType = API_LOCAL_AT
       /\ (xbs.sourceRouteChanged /\ ~xbs'.sourceRouteChanged) =>
            /\ g'.lastOut # << >>
            /\ g'.lastOut[1].apiType = API_CREATE_SOURCE_ROUTE
       /\ \A i \in 1..Len(g'.lastOut) :
            (/\ xbs.sourceRouteChanged
             /\ g'.lastOut[i].apiType \notin {API_LOCAL_AT, API_CREATE_SOURCE_ROUTE})
              => /\ i > 1
                 /\ g'.lastOut[i - 1].apiType = API_CREATE_SOURCE_ROUTE
       /\ (/\ pc # "at_poll" /\ pc' = "at_poll" /\ ~at'.local
           /\ xbs.sourceRouteChanged /\ g'.lastOut = << >>) =>
            g'.sendRc # 0 /\ xbs'.sourceRouteChanged]_vars

\* sendAT was called with a route to announce, the Create Source Route frame
\* could not be written, and no 0x17 frame was written either
C37_Witness ==
  /\ pc = "at_poll"
  /\ ~at.local
  /\ at.retries = 0
  /\ ~g.polled
  /\ g.sendRc # 0
  /\ g.lastOut = << >>
  /\ xbs.sourceRouteChanged


\* C38: every ACK a host step writes, inline on acceptance or after a retry
\* timeout in send or recv, carries the value inSequence holds once the step
\* is over and never 0, so no ACK is written while inSequence is still 0
C38_AcksOnlyAccepted ==
  [][g' # g =>
       \A i \in 1..Len(g'.lastOut) :
         g'.lastOut[i].packetType = XBEEBOOT_PACKET_TYPE_ACK =>
           /\ g'.lastOut[i].sequence = xbs'.inSequence
           /\ g'.lastOut[i].sequence # 0]_vars

\* C38: xbeedev_recv has written the ACK again after a poll timed out
C38_Witness ==
  /\ pc = "recv_poll"
  /\ g.opName = "recv"
  /\ xbs.inSequence # 0
  /\ \E i \in 1..Len(g.lastOut) :
       /\ g.lastOut[i].packetType = XBEEBOOT_PACKET_TYPE_ACK
       /\ g.lastOut[i].sequence = xbs.inSequence


\* C39 as stated: data arriving during drain survives it.  A REQUEST accepted
\* while xbeedev_drain polls is acknowledged (sendPacket is called for its
\* ACK, which is written unless the serial device's send fails); when drain
\* returns, the data of the REQUESTs accepted during it is what the ring
\* holds; and the next xbeedev_recv, called right after the drain, returns
\* those bytes first.
C39_AsStated ==
  [][/\ (pc = "drain_poll" /\ g'.evt.kind = "req" /\ g'.evt.took =>
           /\ g'.evt.ackSeq = g'.evt.seq
           /\ (g'.evt.wrote \/ g'.evt.failed))
     /\ (pc = "drain_poll" /\ g'.done =>
           g'.accepted = g'.delivered \o RingContents(xbs'))
     /\ (g.opName = "drain" /\ g.done /\ g.rc = 0 /\ g'.ops = g.ops + 1
           /\ g'.opName = "recv" =>
           LET pending == SubSeq(g.accepted, Len(g.delivered) + 1,
                                 Len(g.accepted))
           IN  g'.delivered =
                 g.delivered \o SubSeq(pending, 1,
                                       Min(Len(pending), g'.asked)))]_vars


\* C40: the encoder stays inside its buffer.  For every frame the program
\* asks sendAPIRequest to build, the escaped payload and checksum written
\* from frame[5] end within frame[256], and would if every byte were
\* escaped; the 8-bit length is the length of the payload; and the
\* delimiter and the escaped length are moved in front of the payload to a
\* place within the array, so that the bytes sent, all of them bytes of
\* frame[], are the delimiter, the escaped length, the escaped payload and
\* the escaped checksum.
C40_EncoderInBounds ==
  enc # << >> /\ enc.stage # "called" =>
    /\ ~enc.outside
    /\ enc.dataStart + enc.finalLength <= FrameBufferSize
    /\ FRAME_DATA_OFFSET + 2 * (Len(enc.payload) + 1) <= FrameBufferSize
    /\ enc.length = Len(enc.payload)
    /\ enc.stage = "sent" =>
         /\ enc.frameStart >= 0
         /\ enc.frameStart + Len(enc.sent) <= FrameBufferSize
         /\ enc.sent = <<FRAME_DELIMITER, 0>> \o fpput(Len(enc.payload))
                         \o PutAll(enc.payload)
                         \o fpput(Checksum(enc.payload))
         /\ \A i \in 1..Len(enc.sent) : enc.sent[i] # -1

\* a Create Source Route of XBEE_MAX_INTERMEDIATE_HOPS hops has been sent
\* with every byte of its address and of its route escaped
C40_Witness ==
  /\ enc # << >>
  /\ enc.stage = "sent"
  /\ enc.payload[1] = API_CREATE_SOURCE_ROUTE
  /\ Len(enc.payload) = 14 + 2 * XBEE_MAX_INTERMEDIATE_HOPS
  /\ Len(enc.sent) > 2 * (10 + 2 * XBEE_MAX_INTERMEDIATE_HOPS)
  /\ ~enc.outside

====
